---- MODULE Spec2Model ----
(***************************************************************************)
(* Assessment pipeline of the RAGFlow assessment service                   *)
(* (src/assessment/services.py, db.py, routers.py).                        *)
(*                                                                         *)
(* One task lives in the task store.  A fixed set of coroutines (request   *)
(* handlers and the background executions they dispatch) works on it.      *)
(* Every coroutine holds its own in-memory TaskRecord, loaded with         *)
(* get_task and written back as a whole row by db_save_task, so the only   *)
(* shared state is the persisted row, the advisory lock and the gateway.   *)
(* One action is one suspension point (a store call or a gateway call)     *)
(* together with the synchronous code around it; gateway calls that touch  *)
(* nothing but the gateway are taken together with the store call that     *)
(* follows them, and a raise inside a try block together with the status   *)
(* write of its except handler.                                            *)
(***************************************************************************)
EXTENDS Naturals, Integers, Sequences, FiniteSets, TLC

\* ---------------------------------------------------------------- bounds
NQ == 1
MaxUploads == 2
MaxRuns == 2
MaxBatch == 2

\* ------------------------------------------------------ program constants
PROGRESS_BATCH_SIZE == 5
MAX_CONCURRENT_QUESTIONS == 5
\* page_size of list_datasets and list_chats
PAGE_SIZE == 100

\* the coroutines in flight at one time, and the order in which free ones are taken
Workers == {"w1", "w2"}
Rank == [w \in Workers |-> IF w = "w1" THEN 1 ELSE 2]
Hashes == {"h1", "h2"}
\* question numbers: NQ questions in the full pipeline, enough for a second
\* progress write where only the question processor runs
Questions == 1..(PROGRESS_BATCH_SIZE + NQ)

\* TaskState / PipelineStage enums
PENDING == "pending"
AWAITING_DOCUMENTS == "awaiting_documents"
UPLOADING == "uploading"
PARSING == "parsing"
PROCESSING == "processing"
COMPLETED == "completed"
FAILED == "failed"
TaskState == {PENDING, AWAITING_DOCUMENTS, UPLOADING, PARSING, PROCESSING, COMPLETED, FAILED}

IDLE == "idle"
DOCUMENT_UPLOAD == "document_upload"
DOCUMENT_PARSING == "document_parsing"
CHAT_PROCESSING == "chat_processing"
FINALIZING == "finalizing"

\* statuses wait_for_parsing can report for one document
ParseStatuses == {"success", "failed", "timeout", "not_found"}

\* Optional[str] None, and the "argument not passed" default of _update_status
NoError == "null"
Keep == "keep"
KeepInt == -1
NoExc == "no_exception"
NoOne == "nobody"

\* str(exc) of the RuntimeError _request raises for a failed HTTP call
GatewayError == "cannot connect to RAGFlow"

\* the task row is absent (get_task returns None)
NoTask ==
    [exists |-> FALSE, state |-> "none", stage |-> "none", error |-> "null",
     failures |-> 0, processed |-> 0, results |-> <<>>, docstat |-> <<>>,
     docs |-> <<>>, hashes |-> <<>>, dataset |-> FALSE]

VARIABLES
    distributed,   \* _is_postgres(): the advisory lock is effective
    total,         \* total_questions: len(questions) of the task
    store,         \* the persisted task row (TaskRow), or NoTask
    lock,          \* holder of pg_advisory_lock(task), or NoOne
    gwDocs,        \* gateway: hash of every document uploaded so far; the index is the document ID
    gwChat,        \* gateway: dataset_ids of the chat assistant created last
    runs,          \* number of pipeline executions dispatched so far
    pc,            \* position of each coroutine
    kind,          \* pipeline variant the coroutine executes
    rec,           \* the coroutine's in-memory TaskRecord
    files,         \* the batch handed to the coroutine (content hashes; dataset IDs for from-dataset)
    newIds,        \* uploaded_results: <<doc_id, hash>> in upload order
    exc,           \* the exception the coroutine's last operation raised or handled
    ret,           \* how the coroutine's last operation ended
    qstate,        \* per question: todo / asking / saving / done / failed / unsaved
    psnap,         \* rows built by db_save_task for progress writes, not yet committed
    runId,         \* number of the execution the coroutine runs
    sawClaim       \* another claim_session_start call succeeded while this one waits for the lock

\* the gateway client and the store primitives taken on their own: the locals
\* of one call each
VARIABLES
    wfp,           \* wait_for_parsing: its arguments, locals, position and return value
    cite,          \* _process_one: the option, the response and the references of one result
    upd,           \* _update_status: the record's status, the task row, the event log, the clock
    ens,           \* ensure_dataset / ensure_chat: the gateway's resources and the call's locals
    purge          \* db_purge_old_tasks: the old rows, the cleanup lock, each instance's call

\* the variables of the pipeline, and those of the calls modelled on their own
pipe == <<distributed, total, store, lock, gwDocs, gwChat, runs, pc, kind, rec, files,
          newIds, exc, ret, qstate, psnap, runId, sawClaim>>
side == <<wfp, cite, upd, ens, purge>>
vars == <<pipe, side>>

\* ------------------------------------------------------------------ helpers

Range(s) == {s[i] : i \in 1..Len(s)}

\* all sequences over S of length 1..n
RECURSIVE SeqsUpTo(_, _)
SeqsUpTo(S, n) ==
    IF n = 0 THEN {<<>>}
    ELSE LET shorter == SeqsUpTo(S, n - 1)
         IN shorter \cup {Append(s, x) : s \in {t \in shorter : Len(t) = n - 1}, x \in S}

Batches == SeqsUpTo(Hashes, MaxBatch) \ {<<>>}

\* the dataset ensure_dataset creates for the task
OwnDataset == "own"
\* parsed_ids of POST /assessments/from-dataset: at least one dataset ID
DatasetLists == {<<"ds1">>, <<"ds1", "ds2">>}

\* create_task: a fresh TaskRecord in the given state
NewTask(state) ==
    [exists |-> TRUE, state |-> state, stage |-> IDLE, error |-> NoError,
     failures |-> 0, processed |-> 0, results |-> <<>>, docstat |-> <<>>,
     docs |-> <<>>, hashes |-> <<>>, dataset |-> FALSE]

\* variant: file_hashes is not consulted
HashKeysNone(r) == {}

\* file_hashes is kept as a sequence of <<hash, doc_id>> with one entry per hash
HashKeys(r) == {r.hashes[i][1] : i \in 1..Len(r.hashes)}

\* dict assignment file_hashes[h] = id: replaces the entry of h, or adds one
RECURSIVE PutHash(_, _, _)
PutHash(hs, h, id) ==
    IF hs = <<>> THEN <<<<h, id>>>>
    ELSE IF Head(hs)[1] = h THEN <<<<h, id>>>> \o Tail(hs)
    ELSE <<Head(hs)>> \o PutHash(Tail(hs), h, id)

RECURSIVE PutHashes(_, _)
PutHashes(hs, pairs) ==
    IF pairs = <<>> THEN hs
    ELSE PutHashes(PutHash(hs, pairs[1][2], pairs[1][1]), Tail(pairs))

DocIdsOf(pairs) == [i \in 1..Len(pairs) |-> pairs[i][1]]

\* the dedup loop of add_documents_to_session / run_assessment:
\* returns <<files_to_upload, skipped_count>>
RECURSIVE Dedup(_, _, _, _)
Dedup(fs, known, acc, skip) ==
    IF fs = <<>> THEN <<acc, skip>>
    ELSE IF Head(fs) \in known \/ Head(fs) \in Range(acc)
         THEN Dedup(Tail(fs), known, acc, skip + 1)
         ELSE Dedup(Tail(fs), known, Append(acc, Head(fs)), skip)

\* _update_status: apply the passed fields to the record (None keeps the field);
\* every call passes a progress message, of which the record keeps the number
\* of question failures it reports
UpdateStatus(r, state, stage, error, processed) ==
    [r EXCEPT !.failures = 0,
              !.state = IF state = Keep THEN @ ELSE state,
              !.stage = IF stage = Keep THEN @ ELSE stage,
              !.error = IF error = Keep THEN @ ELSE IF error = "" THEN NoError ELSE error,
              !.processed = IF processed = KeepInt THEN @ ELSE processed]

\* elements of s at the indices in S, in order
RECURSIVE Pick(_, _)
Pick(s, S) ==
    IF s = <<>> THEN <<>>
    ELSE (IF 1 \in S THEN <<Head(s)>> ELSE <<>>) \o Pick(Tail(s), {i - 1 : i \in S \ {1}})

\* uploaded_results of a gather whose uploads all succeed: <<doc_id, hash>>,
\* the gateway numbering documents in creation order after the first `base`
UploadedResults(fs, base) == [i \in 1..Len(fs) |-> <<base + i, fs[i]>>]

\* -------------------------------------------- wait_for_parsing: its values

\* the documents a wait can be asked about
WaitDocs == {"d1", "d2"}
\* id_to_doc.get(did) is None: the document is not in the list response
Absent == [present |-> FALSE, run |-> "", progress |-> 0, status |-> ""]
\* what the gateway can return for a document: its run code and its progress
\* in thousandths (1000 is progress 1.0), without a status
ListedDocs ==
    [present : {TRUE}, run : {"1", "FAIL", "2"}, progress : {0, 500, 999, 1000},
     status : {""}]
PollResponses == [WaitDocs -> ListedDocs \cup {Absent}]

\* list_documents_page: the status it derives from run and progress
ListStatus(doc) ==
    IF doc.run \in {"FAIL", "2"} THEN "failed"
    ELSE IF doc.progress >= 999 THEN "success"
    ELSE IF doc.progress > 0 THEN "running"
    ELSE "pending"

\* list_documents: every returned item gets doc["status"]
ListDocuments(resp) ==
    [d \in WaitDocs |->
        IF resp[d].present THEN [resp[d] EXCEPT !.status = ListStatus(resp[d])] ELSE resp[d]]

\* no wait_for_parsing call is in progress
WfpIdle ==
    [pc |-> "idle", document_ids |-> <<>>, timeout |-> 0, poll_interval |-> 0,
     elapsed |-> 0, polls |-> 0, terminal |-> [d \in WaitDocs |-> "none"],
     id_to_doc |-> [d \in WaitDocs |-> Absent], report |-> <<>>, exc |-> NoExc]

\* ------------------------------------------- cited references: their values

\* the chunks a completion response can return (document names)
Chunks == {"a.pdf", "b.pdf"}
\* an answer text is a sequence of pieces: a piece n >= 0 is the marker [ID:n],
\* the piece -1 is text without a marker
AnswerPieces == -1..3
Answers == SeqsUpTo(AnswerPieces, 2)
References == SeqsUpTo(Chunks, 3)

\* no response is being processed
CiteIdle ==
    [pc |-> "idle", do_only_cited |-> FALSE, raw_refs |-> <<>>, answer_text |-> <<>>,
     refs |-> <<>>]

\* ---------------------------------------------- _update_status: its values

\* datetime.utcnow() at the calls of _update_status
Times == 1..2
\* progress messages
Messages == {"m1", "m2"}

\* TaskStatus of a task create_task has just saved
FreshStatus ==
    [state |-> PENDING, stage |-> IDLE, message |-> "", error |-> NoError,
     processed |-> 0, updated_at |-> 0]

\* before create_task: no record, no row (created is FALSE), no event
UpdIdle ==
    [created |-> FALSE, status |-> FreshStatus, row |-> FreshStatus, events |-> <<>>,
     now |-> 0, outcome |-> "none", logged |-> FALSE]

\* ------------------------------------- ensure_dataset / ensure_chat: values

\* IDs of the resources on the gateway before the call, and of the one it creates
OldIds == 1..3
NewId == "new"
\* a resource has the requested name, another name, or does not exist
ResourceNames == {"named", "other", "none"}

\* no ensure call is in progress
EnsIdle ==
    [pc |-> "idle", resource |-> "none", before |-> [i \in OldIds |-> "none"],
     gateway |-> [i \in OldIds |-> "none"], to_delete |-> {}, deleted |-> {},
     created |-> 0, result |-> "none"]

\* ------------------------------------------------ retention purge: values

\* no purge is in progress and no row is older than the cutoff
PurgeIdle ==
    [pc |-> [i \in Workers |-> "idle"], retention_days |-> [i \in Workers |-> 0],
     ret |-> [i \in Workers |-> -1], lock |-> NoOne, tasks |-> 0, events |-> 0,
     undo |-> [i \in Workers |-> <<0, 0>>]]

\* ---------------------------------------------------------------- Init

\* no call modelled on its own is in progress
SideIdle == wfp = WfpIdle /\ cite = CiteIdle /\ upd = UpdIdle /\ ens = EnsIdle
            /\ purge = PurgeIdle

\* no task, no coroutine at work
Idle ==
    /\ total = NQ
    /\ store = NoTask
    /\ lock = NoOne
    /\ gwDocs = <<>>
    /\ gwChat = <<>>
    /\ runs = 0
    /\ pc = [w \in Workers |-> "idle"]
    /\ kind = [w \in Workers |-> "none"]
    /\ rec = [w \in Workers |-> NoTask]
    /\ files = [w \in Workers |-> <<>>]
    /\ newIds = [w \in Workers |-> <<>>]
    /\ exc = [w \in Workers |-> NoExc]
    /\ ret = [w \in Workers |-> "none"]
    /\ qstate = [w \in Workers |-> [q \in Questions |-> "todo"]]
    /\ psnap = [w \in Workers |-> {}]
    /\ runId = [w \in Workers |-> 0]
    /\ sawClaim = [w \in Workers |-> FALSE]


Init ==
    /\ distributed \in BOOLEAN
    /\ Idle
    /\ SideIdle

\* -------------------------------------------------------- frame helpers

\* variant: the lock never blocks
LockNoop(w) == TRUE

\* db_task_lock: pg_advisory_lock blocks while another holder exists; no-op on SQLite
LockFree(w) == ~distributed \/ lock = NoOne
Acquire(w) == lock' = IF distributed THEN w ELSE lock
Release(w) == lock' = IF lock = w THEN NoOne ELSE lock

\* a new request is served by the first free coroutine
Turn(w) ==
    /\ pc[w] = "idle"
    /\ \A v \in Workers : Rank[v] < Rank[w] => pc[v] # "idle"

\* the coroutine's call returns r or raises e: its locals are dropped
EndOp(w, r, e) ==
    /\ pc' = [pc EXCEPT ![w] = "done"]
    /\ ret' = [ret EXCEPT ![w] = r]
    /\ exc' = [exc EXCEPT ![w] = e]
    /\ kind' = [kind EXCEPT ![w] = "none"]
    /\ rec' = [rec EXCEPT ![w] = NoTask]
    /\ files' = [files EXCEPT ![w] = <<>>]
    /\ newIds' = [newIds EXCEPT ![w] = <<>>]
    /\ qstate' = [qstate EXCEPT ![w] = [q \in Questions |-> "todo"]]
    /\ psnap' = [psnap EXCEPT ![w] = {}]
    /\ runId' = [runId EXCEPT ![w] = 0]
    /\ sawClaim' = [sawClaim EXCEPT ![w] = FALSE]

\* the coroutine goes on to its next suspension point with record r
Continue(w, r, next) ==
    /\ pc' = [pc EXCEPT ![w] = next]
    /\ rec' = [rec EXCEPT ![w] = r]
    /\ UNCHANGED <<ret, exc, kind, files, newIds, qstate, psnap, runId, sawClaim>>

\* a background execution is dispatched on the coroutine with the request's
\* evidence files fs
Dispatch(w, k, first, fs) ==
    /\ pc' = [pc EXCEPT ![w] = first]
    /\ kind' = [kind EXCEPT ![w] = k]
    /\ runs' = runs + 1
    /\ runId' = [runId EXCEPT ![w] = runs + 1]
    /\ rec' = [rec EXCEPT ![w] = NoTask]
    /\ sawClaim' = [sawClaim EXCEPT ![w] = FALSE]
    /\ files' = [files EXCEPT ![w] = fs]
    /\ UNCHANGED <<ret, exc, newIds, qstate, psnap>>

\* ------------------------------------------------- two-phase: create session

\* create_session, first half: create_task(AWAITING_DOCUMENTS) persists the row
CreateSession(w) ==
    /\ Turn(w)
    /\ store = NoTask
    /\ store' = NewTask(AWAITING_DOCUMENTS)
    /\ Continue(w, NewTask(AWAITING_DOCUMENTS), "cs_dataset")
    /\ UNCHANGED <<side, gwChat, distributed, total, lock, gwDocs, runs>>

\* the record create_session persists after ensure_dataset returned or raised
SessionResult(r, ok) ==
    IF ok
    THEN UpdateStatus([r EXCEPT !.dataset = TRUE], AWAITING_DOCUMENTS, IDLE, Keep, KeepInt)
    ELSE UpdateStatus(r, FAILED, Keep, GatewayError, KeepInt)

\* create_session, second half: ensure_dataset, then the status write
\* (AWAITING_DOCUMENTS on success, FAILED and re-raise on failure)
CsEnsureDataset(w) ==
    /\ pc[w] = "cs_dataset"
    /\ \E ok \in BOOLEAN :
         /\ store' = SessionResult(rec[w], ok)
         /\ IF ok THEN EndOp(w, "ok", NoExc) ELSE EndOp(w, "raised", GatewayError)
    /\ UNCHANGED <<side, gwChat, distributed, total, lock, gwDocs, runs>>

\* ------------------------------------------ two-phase: add_documents_to_session

\* variant: the validation without the dataset check
AddValidationNoDataset(r) ==
    IF ~r.exists THEN "task not found"
    ELSE IF r.state \notin {AWAITING_DOCUMENTS, FAILED} THEN "cannot upload in this state"
    ELSE NoExc

\* the validation of add_documents_to_session: the message it raises, or NoExc
AddValidation(r) ==
    IF ~r.exists THEN "task not found"
    ELSE IF r.state \notin {AWAITING_DOCUMENTS, FAILED} THEN "cannot upload in this state"
    ELSE IF ~r.dataset THEN "no dataset"
    ELSE NoExc

\* variant: the uploads that succeeded are recorded before the exception leaves
AddUploadFailedRecords(w, ups) ==
    /\ EndOp(w, "raised", GatewayError)
    /\ store' = [store EXCEPT !.hashes = PutHashes(@, ups), !.docs = @ \o DocIdsOf(ups)]

\* an upload_document of the gather raises: the exception leaves
\* add_documents_to_session before anything is recorded or written (ups are
\* the uploads that succeeded)
AddUploadFailed(w, ups) ==
    /\ EndOp(w, "raised", GatewayError)
    /\ UNCHANGED store

\* add_documents_to_session(files = fs) up to the end of its upload gather: the
\* lock is taken, get_task, validation, the dedup loop, the all-duplicates early
\* return, then the uploads; one failed upload_document propagates out of the
\* call while any of the other uploads may have created its document
AddGet(w, fs) ==
    /\ Turn(w)
    /\ LockFree(w)
    /\ LET err == AddValidation(store)
           d == IF err = NoExc
                THEN Dedup(fs, HashKeys(store), <<>>, 0)
                ELSE <<<<>>, 0>>
       IN IF err # NoExc
          THEN /\ EndOp(w, "raised", err)
               /\ UNCHANGED <<lock, gwDocs, store>>
          ELSE IF d[1] = <<>> /\ d[2] > 0
          THEN /\ EndOp(w, "ok", NoExc)
               /\ UNCHANGED <<lock, gwDocs, store>>
          ELSE \/ /\ Len(gwDocs) + Len(d[1]) <= MaxUploads
                  /\ gwDocs' = gwDocs \o d[1]
                  /\ Acquire(w)
                  /\ pc' = [pc EXCEPT ![w] = "ad_save"]
                  /\ rec' = [rec EXCEPT ![w] = store]
                  /\ files' = [files EXCEPT ![w] = fs]
                  /\ newIds' = [newIds EXCEPT ![w] = UploadedResults(d[1], Len(gwDocs))]
                  /\ UNCHANGED <<ret, exc, kind, qstate, psnap, runId, sawClaim, store>>
               \/ \E S \in SUBSET (1..Len(d[1])) :
                       /\ Cardinality(S) < Len(d[1])
                       /\ Len(gwDocs) + Cardinality(S) <= MaxUploads
                       /\ gwDocs' = gwDocs \o Pick(d[1], S)
                       /\ AddUploadFailed(w, UploadedResults(Pick(d[1], S), Len(gwDocs)))
                       /\ UNCHANGED lock
    /\ UNCHANGED <<side, gwChat, distributed, total, runs>>

\* variant: document_ids is replaced by the new IDs instead of extended
AddResultReplaces(r, ids) ==
    LET r1 == [r EXCEPT !.hashes = PutHashes(@, ids), !.docs = DocIdsOf(ids)]
        new_state == IF r.state = FAILED THEN AWAITING_DOCUMENTS ELSE Keep
    IN UpdateStatus(r1, new_state, Keep,
                    IF new_state = AWAITING_DOCUMENTS THEN "" ELSE Keep, KeepInt)

\* the record add_documents_to_session persists after the uploads
AddResult(r, ids) ==
    LET r1 == [r EXCEPT !.hashes = PutHashes(@, ids), !.docs = @ \o DocIdsOf(ids)]
        new_state == IF r.state = FAILED THEN AWAITING_DOCUMENTS ELSE Keep
    IN UpdateStatus(r1, new_state, Keep,
                    IF new_state = AWAITING_DOCUMENTS THEN "" ELSE Keep, KeepInt)

\* record the new IDs and hashes, reset FAILED to AWAITING_DOCUMENTS, persist
\* (the write may raise), release the lock and return
AddSave(w) ==
    /\ pc[w] = "ad_save"
    /\ \/ /\ store' = AddResult(rec[w], newIds[w])
          /\ EndOp(w, "ok", NoExc)
       \/ /\ EndOp(w, "raised", "store write failed")
          /\ UNCHANGED store
    /\ Release(w)
    /\ UNCHANGED <<side, gwChat, distributed, total, gwDocs, runs>>

\* ------------------------------------------------ two-phase: claim and start

\* positions of a start request between its call and the dispatch of the execution
ClaimPCs == {"cl_wait", "cl_save", "cl_sched"}

\* POST .../start: the handler calls claim_session_start, which waits for the lock
ClaimCall(w) ==
    /\ Turn(w)
    /\ runs + Cardinality({v \in Workers : pc[v] \in ClaimPCs}) < MaxRuns
    /\ Continue(w, NoTask, "cl_wait")
    /\ UNCHANGED <<side, gwChat, distributed, total, store, lock, gwDocs, runs>>

\* variant: the validation without the document check
ClaimValidationNoDocs(r) ==
    IF ~r.exists THEN "task not found"
    ELSE IF r.state \notin {AWAITING_DOCUMENTS, FAILED} THEN "cannot start in this state"
    ELSE NoExc

\* the validation of claim_session_start: the message it raises, or NoExc
ClaimValidation(r) ==
    IF ~r.exists THEN "task not found"
    ELSE IF r.state \notin {AWAITING_DOCUMENTS, FAILED} THEN "cannot start in this state"
    ELSE IF r.docs = <<>> THEN "no evidence documents uploaded"
    ELSE NoExc

\* variant: the stale run artifacts are kept
ClaimResetKeeps(r) == r

\* claim_session_start: stale run artifacts are cleared in memory
ClaimReset(r) == [r EXCEPT !.results = <<>>, !.docstat = <<>>]

\* the lock is granted, get_task and validation run under it; results and
\* document statuses are cleared in memory
ClaimGet(w) ==
    /\ pc[w] = "cl_wait"
    /\ LockFree(w)
    /\ LET err == ClaimValidation(store)
       IN IF err # NoExc
          THEN /\ EndOp(w, "raised", err)
               /\ UNCHANGED lock
          ELSE /\ Acquire(w)
               /\ Continue(w, ClaimReset(store), "cl_save")
    /\ UNCHANGED <<side, gwChat, distributed, total, store, gwDocs, runs>>

\* variant: the claim does not pass error=""
ClaimResultKeepsError(r) == UpdateStatus(r, PARSING, DOCUMENT_PARSING, Keep, 0)

\* the record claim_session_start persists
ClaimResult(r) == UpdateStatus(r, PARSING, DOCUMENT_PARSING, "", 0)

\* _update_status(PARSING, ...) under the lock (the write may raise), then the
\* lock is released
ClaimSave(w) ==
    /\ pc[w] = "cl_save"
    /\ Release(w)
    /\ \/ /\ store' = ClaimResult(rec[w])
          /\ pc' = [pc EXCEPT ![w] = "cl_sched"]
          /\ rec' = [rec EXCEPT ![w] = ClaimResult(rec[w])]
          /\ sawClaim' = [v \in Workers |->
                            IF v # w /\ pc[v] \in {"cl_wait", "cl_save"}
                            THEN TRUE ELSE sawClaim[v]]
          /\ UNCHANGED <<kind, files, newIds, exc, ret, qstate, psnap, runId>>
       \/ /\ EndOp(w, "raised", "store write failed")
          /\ UNCHANGED store
    /\ UNCHANGED <<side, gwChat, distributed, total, gwDocs, runs>>

\* start_session_assessment after the claim: dataset_options / chat_options are
\* parsed; invalid JSON raises HTTP 400 before background_tasks.add_task is reached
StartSchedule(w) ==
    /\ pc[w] = "cl_sched"
    /\ \E validJson \in BOOLEAN :
         IF validJson
         THEN Dispatch(w, "session", "rs_get", <<>>)
         ELSE /\ EndOp(w, "http_400", NoExc)
              /\ UNCHANGED runs
    /\ UNCHANGED <<side, gwChat, distributed, total, store, lock, gwDocs>>

\* ------------------------------------------------------ pipeline executions

\* positions inside the try block of a pipeline variant
TryPCs == {"rs_parsing", "ra_uploading", "ra_dataset", "ra_upload", "parse",
           "set_processing", "chat", "asking"}
\* positions of a running pipeline execution (background coroutine)
ExecPCs == TryPCs \cup {"rs_get", "ra_get", "fd_get"}

\* variant: the handler leaves the pipeline stage as it was
FailResultKeepsStage(r, msg) == UpdateStatus(r, FAILED, Keep, msg, KeepInt)

\* the record the except handler persists
FailResult(r, msg) == UpdateStatus(r, FAILED, IDLE, msg, KeepInt)

\* a step inside the try block raises msg with the in-memory record at r:
\* except Exception does _update_status(FAILED, IDLE, error=str(exc)); when this
\* write raises too, its exception leaves the coroutine
Handle(w, r, msg) ==
    \E ok \in BOOLEAN :
        IF ok
        THEN /\ store' = FailResult(r, msg)
             /\ EndOp(w, "failed", msg)
        ELSE /\ EndOp(w, "crashed", "store write failed")
             /\ UNCHANGED store

\* a status write inside the try block: _update_status mutates the in-memory
\* record, then db_save_task replaces the row or raises
Persist(w, r, next) ==
    \/ /\ store' = r
       /\ Continue(w, r, next)
    \/ Handle(w, r, "store write failed")

\* the validation at the head of run_assessment_for_session
RunSessionValidation(r) ==
    IF ~r.exists THEN "task not found"
    ELSE IF r.state \notin {PARSING, AWAITING_DOCUMENTS, FAILED} THEN "cannot start in this state"
    ELSE IF r.docs = <<>> THEN "no evidence documents uploaded"
    ELSE NoExc

\* run_assessment_for_session: the in-memory reset before the try block
RunSessionReset(r) ==
    [r EXCEPT !.results = <<>>, !.docstat = <<>>, !.processed = 0, !.error = NoError]

\* run_assessment_for_session: get_task, validation (raises to the caller), reset
RsGet(w) ==
    /\ pc[w] = "rs_get"
    /\ LET err == RunSessionValidation(store)
       IN IF err # NoExc
          THEN EndOp(w, "raised", err)
          ELSE Continue(w, RunSessionReset(store), "rs_parsing")
    /\ UNCHANGED <<side, gwChat, distributed, total, store, lock, gwDocs, runs>>

\* run_assessment_for_session: _update_status(PARSING, DOCUMENT_PARSING)
RsSetParsing(w) ==
    /\ pc[w] = "rs_parsing"
    /\ Persist(w, UpdateStatus(rec[w], PARSING, DOCUMENT_PARSING, Keep, KeepInt), "parse")
    /\ UNCHANGED <<side, gwChat, distributed, total, lock, gwDocs, runs>>

\* variant: the run is fatal as soon as one document did not succeed
SomeNotParsed(st) == \E i \in 1..Len(st) : st[i] # "success"

\* `if not ok_ids`: no document has status success
NoneParsed(st) == \A i \in 1..Len(st) : st[i] # "success"

\* variant: the statuses of the parse wait are recorded but not examined
ParseUnchecked(w) ==
    /\ pc[w] = "parse"
    /\ \E st \in [1..Len(rec[w].docs) -> ParseStatuses] :
         Persist(w, UpdateStatus([rec[w] EXCEPT !.docstat = st], Keep, Keep, Keep, KeepInt),
                 "set_processing")
    /\ UNCHANGED <<side, gwChat, distributed, total, lock, gwDocs, runs>>

\* client.start_parsing and client.wait_for_parsing (either may raise); the wait
\* returns one status per document, the statuses are recorded, zero successes
\* raise, otherwise the "Parsing complete" status write follows
ParseDocuments(w) ==
    /\ pc[w] = "parse"
    /\ \/ Handle(w, rec[w], GatewayError)
       \/ \E st \in [1..Len(rec[w].docs) -> ParseStatuses] :
            LET r == [rec[w] EXCEPT !.docstat = st]
            IN IF NoneParsed(st)
               THEN Handle(w, r, "all documents failed to parse")
               ELSE Persist(w, UpdateStatus(r, Keep, Keep, Keep, KeepInt), "set_processing")
    /\ UNCHANGED <<side, gwChat, distributed, total, lock, gwDocs, runs>>

\* variant: the questions are asked without a chat assistant and a session
SetProcessingSkipsChat(w) ==
    /\ pc[w] = "set_processing"
    /\ Persist(w, UpdateStatus(rec[w], PROCESSING, CHAT_PROCESSING, Keep, KeepInt), "asking")
    /\ UNCHANGED <<side, gwChat, distributed, total, lock, gwDocs, runs>>

\* _update_status(PROCESSING, CHAT_PROCESSING, "Creating chat assistant...")
SetProcessing(w) ==
    /\ pc[w] = "set_processing"
    /\ Persist(w, UpdateStatus(rec[w], PROCESSING, CHAT_PROCESSING, Keep, KeepInt), "chat")
    /\ UNCHANGED <<side, gwChat, distributed, total, lock, gwDocs, runs>>

\* variant: only the first dataset of an existing-dataset task is attached
ChatFirstDataset(w) ==
    IF kind[w] = "dataset" THEN <<files[w][1]>> ELSE <<OwnDataset>>

\* the dataset_ids argument of client.ensure_chat: the request's list for an
\* existing-dataset task, [dataset_id] in the other two variants
ChatDatasets(w) ==
    IF kind[w] = "dataset" THEN files[w] ELSE <<OwnDataset>>

\* client.ensure_chat and client.create_session (either may raise), then
\* _process_questions starts with its "Processing questions..." status write
CreateChat(w) ==
    /\ pc[w] = "chat"
    /\ \/ /\ Handle(w, rec[w], GatewayError)
          /\ gwChat' \in {gwChat, ChatDatasets(w)}
       \/ /\ Persist(w, UpdateStatus(rec[w], Keep, Keep, Keep, KeepInt), "asking")
          /\ gwChat' = ChatDatasets(w)
    /\ UNCHANGED <<side, distributed, total, lock, gwDocs, runs>>

\* variant: the tasks of the gather start without a semaphore
AskStartUngated(w, q) ==
    /\ pc[w] = "asking"
    /\ q <= total
    /\ qstate[w][q] = "todo"
    /\ \A p \in 1..(q - 1) : qstate[w][p] # "todo"
    /\ qstate' = [qstate EXCEPT ![w][q] = "asking"]
    /\ UNCHANGED <<side, gwChat, distributed, total, store, lock, gwDocs, runs, pc, kind, rec,
                   files, newIds, exc, ret, psnap, runId, sawClaim>>

\* _process_one enters `async with semaphore` and calls client.ask: the tasks of
\* the gather start in list order, at most MAX_CONCURRENT_QUESTIONS of this
\* call hold its semaphore
AskStart(w, q) ==
    /\ pc[w] = "asking"
    /\ q <= total
    /\ qstate[w][q] = "todo"
    /\ \A p \in 1..(q - 1) : qstate[w][p] # "todo"
    /\ Cardinality({p \in Questions : qstate[w][p] \in {"asking", "saving"}})
          < MAX_CONCURRENT_QUESTIONS
    /\ qstate' = [qstate EXCEPT ![w][q] = "asking"]
    /\ UNCHANGED <<side, gwChat, distributed, total, store, lock, gwDocs, runs, pc, kind, rec, files,
                   newIds, exc, ret, psnap, runId, sawClaim>>

\* variant: the result is not appended
AppendResultDropped(r, q, id) == r

\* variant: the result is appended twice
AppendResultTwice(r, q, id) == [r EXCEPT !.results = Append(Append(@, <<q, id>>), <<q, id>>)]

\* record.results.append(result)
AppendResult(r, q, id) == [r EXCEPT !.results = Append(@, <<q, id>>)]

\* client.ask returns or raises (the gather keeps the exception); the result is
\* appended and, on every PROGRESS_BATCH_SIZE-th and on the last result,
\* _update_status sets questions_processed and db_save_task builds the row it
\* will write
Ask(w, q) ==
    /\ pc[w] = "asking"
    /\ qstate[w][q] = "asking"
    /\ \/ /\ qstate' = [qstate EXCEPT ![w][q] = "failed"]
          /\ UNCHANGED <<rec, psnap>>
       \/ LET r1 == AppendResult(rec[w], q, runId[w])
              processed == Len(r1.results)
              r2 == UpdateStatus(r1, Keep, Keep, Keep, processed)
          IN IF processed % PROGRESS_BATCH_SIZE = 0 \/ processed = total
             THEN /\ rec' = [rec EXCEPT ![w] = r2]
                  /\ psnap' = [psnap EXCEPT ![w] = @ \cup {<<q, r2>>}]
                  /\ qstate' = [qstate EXCEPT ![w][q] = "saving"]
             ELSE /\ rec' = [rec EXCEPT ![w] = r1]
                  /\ qstate' = [qstate EXCEPT ![w][q] = "done"]
                  /\ UNCHANGED psnap
    /\ UNCHANGED <<side, gwChat, distributed, total, store, lock, gwDocs, runs, pc, kind, files,
                   newIds, exc, ret, runId, sawClaim>>

\* the progress write of _process_one commits its row, or raises inside the gather
CommitProgress(w, q) ==
    /\ pc[w] = "asking"
    /\ qstate[w][q] = "saving"
    /\ \E s \in psnap[w] :
         /\ s[1] = q
         /\ psnap' = [psnap EXCEPT ![w] = @ \ {s}]
         /\ \E ok \in BOOLEAN :
              IF ok
              THEN /\ store' = s[2]
                   /\ qstate' = [qstate EXCEPT ![w][q] = "done"]
              ELSE /\ qstate' = [qstate EXCEPT ![w][q] = "unsaved"]
                   /\ UNCHANGED store
    /\ UNCHANGED <<side, gwChat, distributed, total, lock, gwDocs, runs, pc, kind, rec, files, newIds,
                   exc, ret, runId, sawClaim>>

\* failed_count of _process_questions: the exceptions the gather collected
FailedCount(w) == Cardinality({q \in 1..total : qstate[w][q] \in {"failed", "unsaved"}})

\* variant: the final write does not set the terminal state
FinishResultProcessing(r, failed_count) ==
    [UpdateStatus(r, PROCESSING, FINALIZING, Keep, KeepInt) EXCEPT !.failures = failed_count]

\* the record the pipeline persists when the gather has returned: COMPLETED,
\* FINALIZING, "Assessment completed [with N question failure(s)]"
FinishResult(r, failed_count) ==
    [UpdateStatus(r, COMPLETED, FINALIZING, Keep, KeepInt) EXCEPT !.failures = failed_count]

\* variant: the gather propagates the first exception of a question and the
\* except handler fails the run
FinishAborts(w) ==
    /\ pc[w] = "asking"
    /\ \E q \in 1..total : qstate[w][q] \in {"failed", "unsaved"}
    /\ Handle(w, rec[w], "question failed")
    /\ UNCHANGED <<side, gwChat, distributed, total, lock, gwDocs, runs>>

\* the gather has returned: _update_status(COMPLETED, FINALIZING)
Finish(w) ==
    /\ pc[w] = "asking"
    /\ \A q \in 1..total : qstate[w][q] \in {"done", "failed", "unsaved"}
    /\ \/ /\ store' = FinishResult(rec[w], FailedCount(w))
          /\ EndOp(w, "completed", NoExc)
       \/ Handle(w, FinishResult(rec[w], FailedCount(w)), "store write failed")
    /\ UNCHANGED <<side, gwChat, distributed, total, lock, gwDocs, runs>>

\* ---------------------------------------------------- single-call variant

\* POST /assessments with evidence_files = fs: create_task(PENDING), then the
\* options are parsed (invalid JSON raises HTTP 400) and run_assessment is
\* dispatched
CreateSingle(w, fs) ==
    /\ Turn(w)
    /\ store = NoTask
    /\ runs < MaxRuns
    /\ store' = NewTask(PENDING)
    /\ \E validJson \in BOOLEAN :
         IF validJson
         THEN Dispatch(w, "single", "ra_get", fs)
         ELSE /\ EndOp(w, "http_400", NoExc)
              /\ UNCHANGED runs
    /\ UNCHANGED <<side, gwChat, distributed, total, lock, gwDocs>>

\* run_assessment / run_assessment_from_dataset: get_task; a missing task raises
\* to the caller
LoadTask(w, next, r) ==
    IF ~store.exists
    THEN EndOp(w, "raised", "task not found")
    ELSE Continue(w, r, next)

RaGet(w) ==
    /\ pc[w] = "ra_get"
    /\ LoadTask(w, "ra_uploading", store)
    /\ UNCHANGED <<side, gwChat, distributed, total, store, lock, gwDocs, runs>>

\* _update_status(UPLOADING, DOCUMENT_UPLOAD, "Creating dataset...")
RaSetUploading(w) ==
    /\ pc[w] = "ra_uploading"
    /\ Persist(w, UpdateStatus(rec[w], UPLOADING, DOCUMENT_UPLOAD, Keep, KeepInt), "ra_dataset")
    /\ UNCHANGED <<side, gwChat, distributed, total, lock, gwDocs, runs>>

\* client.ensure_dataset (may raise), then the "Uploading evidence documents..."
\* status write
RaEnsureDataset(w) ==
    /\ pc[w] = "ra_dataset"
    /\ \/ Handle(w, rec[w], GatewayError)
       \/ Persist(w, UpdateStatus([rec[w] EXCEPT !.dataset = TRUE], Keep, Keep, Keep, KeepInt),
                  "ra_upload")
    /\ UNCHANGED <<side, gwChat, distributed, total, lock, gwDocs, runs>>

\* the record run_assessment holds after its uploads: document_ids is replaced
RaResult(r, ids) ==
    [r EXCEPT !.hashes = PutHashes(@, ids), !.docs = DocIdsOf(ids)]

\* the in-batch dedup loop over evidence_files (file_hashes is not
\* consulted; a batch without a unique file raises), the upload gather (a failed
\* upload is caught by the except handler), the uploads are recorded, zero
\* documents raise, then _update_status(PARSING, DOCUMENT_PARSING)
RaUpload(w) ==
    /\ pc[w] = "ra_upload"
    /\ LET fs == files[w]
           d == Dedup(fs, {}, <<>>, 0)
           r == RaResult(rec[w], UploadedResults(d[1], Len(gwDocs)))
       IN IF d[1] = <<>> /\ fs # <<>>
          THEN /\ Handle(w, rec[w], "all evidence documents were duplicates")
               /\ UNCHANGED gwDocs
          ELSE \/ /\ Len(gwDocs) + Len(d[1]) <= MaxUploads
                  /\ gwDocs' = gwDocs \o d[1]
                  /\ IF r.docs = <<>>
                     THEN Handle(w, r, "no evidence documents were uploaded")
                     ELSE Persist(w, UpdateStatus(r, PARSING, DOCUMENT_PARSING, Keep, KeepInt),
                                  "parse")
               \/ \E S \in SUBSET (1..Len(d[1])) :
                       /\ Cardinality(S) < Len(d[1])
                       /\ Len(gwDocs) + Cardinality(S) <= MaxUploads
                       /\ gwDocs' = gwDocs \o Pick(d[1], S)
                       /\ Handle(w, rec[w], GatewayError)
    /\ UNCHANGED <<side, gwChat, distributed, total, lock, runs>>

\* ------------------------------------------------- from-existing-dataset variant

\* POST /assessments/from-dataset: create_task(PENDING), options parsed,
\* run_assessment_from_dataset dispatched
CreateFromDataset(w) ==
    /\ Turn(w)
    /\ store = NoTask
    /\ runs < MaxRuns
    /\ store' = NewTask(PENDING)
    /\ \E validJson \in BOOLEAN, ids \in DatasetLists :
         IF validJson
         THEN Dispatch(w, "dataset", "fd_get", ids)
         ELSE /\ EndOp(w, "http_400", NoExc)
              /\ UNCHANGED runs
    /\ UNCHANGED <<side, gwChat, distributed, total, lock, gwDocs>>

\* run_assessment_from_dataset: get_task, the supplied dataset IDs are recorded
FdGet(w) ==
    /\ pc[w] = "fd_get"
    /\ LoadTask(w, "set_processing", [store EXCEPT !.dataset = TRUE])
    /\ UNCHANGED <<side, gwChat, distributed, total, store, lock, gwDocs, runs>>

\* ------------------------------------------------------------ coroutine end

\* the caller has seen the result or the exception of the call
Return(w) ==
    /\ pc[w] = "done"
    /\ pc' = [pc EXCEPT ![w] = "idle"]
    /\ exc' = [exc EXCEPT ![w] = NoExc]
    /\ ret' = [ret EXCEPT ![w] = "none"]
    /\ UNCHANGED <<side, gwChat, distributed, total, store, lock, gwDocs, runs, kind, rec, files, newIds,
                   qstate, psnap, runId, sawClaim>>

\* ------------------------------------------------------------ specification

\* steps of request handlers
Request(w) ==
    \/ CreateSession(w) \/ CsEnsureDataset(w)
    \/ \E fs \in Batches : AddGet(w, fs)
    \/ AddSave(w)
    \/ ClaimCall(w) \/ ClaimGet(w) \/ ClaimSave(w)
    \/ StartSchedule(w)
    \/ \E fs \in Batches : CreateSingle(w, fs)
    \/ CreateFromDataset(w)
    \/ Return(w)

\* steps of background pipeline executions
Execution(w) ==
    \/ RsGet(w) \/ RsSetParsing(w)
    \/ RaGet(w) \/ RaSetUploading(w) \/ RaEnsureDataset(w)
    \/ RaUpload(w)
    \/ FdGet(w)
    \/ ParseDocuments(w) \/ SetProcessing(w) \/ CreateChat(w)
    \/ \E q \in Questions : AskStart(w, q)
    \/ \E q \in Questions : Ask(w, q)
    \/ \E q \in Questions : CommitProgress(w, q)
    \/ Finish(w)

Next == \E w \in Workers : Request(w) \/ Execution(w)

Spec == Init /\ [][Next]_vars

\* one request at a time: the requests and the execution they dispatch are
\* served one after the other
SoloNext == Request("w1") \/ Execution("w1")

\* every call to the store or the gateway eventually returns or raises, and the
\* event loop keeps running the background execution while it is ready
SoloFairSpec == Init /\ [][SoloNext]_vars /\ WF_vars(Execution("w1"))

\* ------------------------------------------- question processor on its own

\* the task when _process_questions has made its first status write in an
\* execution of the two-phase variant: one document, parsed successfully
AskingTask ==
    UpdateStatus([NewTask(AWAITING_DOCUMENTS) EXCEPT
                     !.dataset = TRUE, !.docs = <<1>>, !.hashes = <<<<"h1", 1>>>>,
                     !.docstat = <<"success">>],
                 PROCESSING, CHAT_PROCESSING, Keep, KeepInt)

\* the executions S of the task are all inside _process_questions, n questions
AskingInit(S, n) ==
    /\ total = n
    /\ store = AskingTask
    /\ lock = NoOne
    /\ gwDocs = <<"h1">>
    /\ gwChat = <<OwnDataset>>
    /\ runs = Cardinality(S)
    /\ pc = [w \in Workers |-> IF w \in S THEN "asking" ELSE "idle"]
    /\ kind = [w \in Workers |-> IF w \in S THEN "session" ELSE "none"]
    /\ rec = [w \in Workers |-> IF w \in S THEN AskingTask ELSE NoTask]
    /\ files = [w \in Workers |-> <<>>]
    /\ newIds = [w \in Workers |-> <<>>]
    /\ exc = [w \in Workers |-> NoExc]
    /\ ret = [w \in Workers |-> "none"]
    /\ qstate = [w \in Workers |-> [q \in Questions |-> "todo"]]
    /\ psnap = [w \in Workers |-> {}]
    /\ runId = [w \in Workers |-> IF w \in S THEN Rank[w] ELSE 0]
    /\ sawClaim = [w \in Workers |-> FALSE]
    /\ SideIdle

\* one execution with enough questions for two progress writes
QInit ==
    /\ distributed \in BOOLEAN
    /\ AskingInit({"w1"}, PROGRESS_BATCH_SIZE + NQ)

\* steps of _process_questions and of the final status write
QStep(w) ==
    \/ \E q \in Questions : AskStart(w, q)
    \/ \E q \in Questions : Ask(w, q)
    \/ \E q \in Questions : CommitProgress(w, q)
    \/ Finish(w)

QNext == \E w \in Workers : QStep(w)

QSpec == QInit /\ [][QNext]_vars

\* two executions started by concurrent start requests without the effective
\* lock, with enough questions each to fill more than one semaphore together
DuoInit ==
    /\ distributed = FALSE
    /\ AskingInit(Workers, (MAX_CONCURRENT_QUESTIONS + 2) \div 2)

DuoSpec == DuoInit /\ [][QNext]_vars

\* ------------------------------------------------ wait_for_parsing on its own

\* variant: the progress is examined before the run code
ClassifyProgressFirst(doc) ==
    IF ~doc.present THEN "not_found"
    ELSE IF doc.progress >= 1000 THEN "success"
    ELSE IF doc.run \in {"FAIL", "2"} THEN "failed"
    ELSE "pending"

\* the branch of the polling loop for one listed or missing document; "pending"
\* is the else branch, which leaves the document unresolved
Classify(doc) ==
    IF ~doc.present THEN "not_found"
    ELSE IF doc.run \in {"FAIL", "2"} THEN "failed"
    ELSE IF doc.progress >= 1000 THEN "success"
    ELSE "pending"

\* variant: every poll classifies every requested document again
ResolveAgain(term, resp, ids) ==
    [d \in WaitDocs |->
        IF d \in Range(ids)
        THEN (IF Classify(resp[d]) # "pending" THEN Classify(resp[d]) ELSE "none")
        ELSE term[d]]

\* one pass of `for did in document_ids` over the response resp: a document
\* already in terminal is skipped, the others are classified
Resolve(term, resp, ids) ==
    [d \in WaitDocs |->
        IF d \in Range(ids) /\ term[d] = "none" /\ Classify(resp[d]) # "pending"
        THEN Classify(resp[d])
        ELSE term[d]]

\* after the loop: every document still not in terminal is a timeout
Finalise(term, ids) ==
    [d \in WaitDocs |-> IF d \in Range(ids) /\ term[d] = "none" THEN "timeout" ELSE term[d]]

\* variant: one entry per resolved document, in the order of the documents
ReportResolved(ids, term) ==
    LET ds == {d \in WaitDocs : term[d] # "none"}
    IN IF "d1" \in ds /\ "d2" \in ds
       THEN <<[document_id |-> "d1", status |-> term["d1"]],
              [document_id |-> "d2", status |-> term["d2"]]>>
       ELSE IF ds = {} THEN <<>>
       ELSE LET d == CHOOSE x \in ds : TRUE IN <<[document_id |-> d, status |-> term[d]]>>

\* return [terminal[did] for did in document_ids]
Report(ids, term) ==
    [i \in 1..Len(ids) |-> [document_id |-> ids[i], status |-> term[ids[i]]]]

\* a call wait_for_parsing(dataset_id, document_ids) with its timeout and poll
\* interval (in the same unit) has entered the loop
WaitInit ==
    /\ distributed = FALSE
    /\ Idle
    /\ purge = PurgeIdle
    /\ cite = CiteIdle
    /\ upd = UpdIdle
    /\ ens = EnsIdle
    /\ wfp \in {[WfpIdle EXCEPT !.pc = "polling", !.document_ids = ids,
                                 !.timeout = t, !.poll_interval = i] :
                    ids \in SeqsUpTo(WaitDocs, 2) \ {<<>>}, t \in 1..3, i \in 1..2}

\* one iteration of `while elapsed < timeout`: list_documents (raises when the
\* HTTP call fails), the pass over document_ids, then the break and the final
\* loop and return, or the sleep
WfpPoll ==
    /\ wfp.pc = "polling"
    /\ \/ wfp' = [wfp EXCEPT !.pc = "raised", !.exc = GatewayError, !.polls = @ + 1]
       \/ \E raw \in PollResponses :
            LET resp == ListDocuments(raw)
                term == Resolve(wfp.terminal, resp, wfp.document_ids)
                pending == \E d \in Range(wfp.document_ids) : term[d] = "none"
            IN IF pending
               THEN wfp' = [wfp EXCEPT !.pc = "sleeping", !.terminal = term,
                                       !.id_to_doc = resp, !.polls = @ + 1]
               ELSE wfp' = [wfp EXCEPT !.pc = "returned", !.terminal = term,
                                       !.id_to_doc = resp, !.polls = @ + 1,
                                       !.report = Report(wfp.document_ids, term)]
    /\ UNCHANGED <<pipe, cite, upd, ens, purge>>

\* variant: the loop goes on while elapsed <= timeout
TimeLeftInclusive(elapsed, timeout) == elapsed <= timeout

\* `while elapsed < timeout`
TimeLeft(elapsed, timeout) == elapsed < timeout

\* the sleep is over: elapsed += poll_interval, then the loop condition; when
\* the time is up the unresolved documents become timeouts and the call returns
WfpWake ==
    /\ wfp.pc = "sleeping"
    /\ LET e == wfp.elapsed + wfp.poll_interval
       IN IF TimeLeft(e, wfp.timeout)
          THEN wfp' = [wfp EXCEPT !.pc = "polling", !.elapsed = e]
          ELSE LET term == Finalise(wfp.terminal, wfp.document_ids)
               IN wfp' = [wfp EXCEPT !.pc = "returned", !.elapsed = e, !.terminal = term,
                                     !.report = Report(wfp.document_ids, term)]
    /\ UNCHANGED <<pipe, cite, upd, ens, purge>>

WaitNext == WfpPoll \/ WfpWake

WaitSpec == WaitInit /\ [][WaitNext]_vars

\* the list call returns or raises within the HTTP client's timeout and
\* asyncio.sleep returns after its interval: a call that can take a step
\* takes it
WaitFairSpec == WaitSpec /\ WF_vars(WfpPoll) /\ WF_vars(WfpWake)

\* ------------------------------------------------ cited references on their own

\* get_cited_indices: the set of the N of every [ID:N] in the answer
GetCitedIndices(answer_text) ==
    {answer_text[i] : i \in {j \in 1..Len(answer_text) : answer_text[j] >= 0}}

\* variant: the markers are taken as 1-based positions
CitedPositionsOneBased(raw_refs, cited) ==
    {p \in 1..Len(raw_refs) : p \in cited}

\* `i in cited` for i, r in enumerate(raw_refs): enumerate counts from 0, the
\* sequence from 1
CitedPositions(raw_refs, cited) ==
    {p \in 1..Len(raw_refs) : (p - 1) \in cited}

\* variant: the filter is applied whenever the option is set
FilterUnguarded(do_only_cited, raw_refs, answer_text) ==
    IF do_only_cited /\ raw_refs # <<>>
    THEN Pick(raw_refs, CitedPositions(raw_refs, GetCitedIndices(answer_text)))
    ELSE raw_refs

\* `if do_only_cited and raw_refs: cited = ...; if cited: raw_refs = [...]`
FilterReferences(do_only_cited, raw_refs, answer_text) ==
    IF do_only_cited /\ raw_refs # <<>>
    THEN LET cited == GetCitedIndices(answer_text)
         IN IF cited # {}
            THEN Pick(raw_refs, CitedPositions(raw_refs, cited))
            ELSE raw_refs
    ELSE raw_refs

\* client.ask has returned an answer and its reference chunks
CiteInit ==
    /\ distributed = FALSE
    /\ Idle
    /\ purge = PurgeIdle
    /\ wfp = WfpIdle
    /\ upd = UpdIdle
    /\ ens = EnsIdle
    /\ cite \in {[CiteIdle EXCEPT !.pc = "answered", !.do_only_cited = o,
                                   !.raw_refs = r, !.answer_text = a] :
                     o \in BOOLEAN, r \in References, a \in Answers}

\* the references of the result are built
BuildReferences ==
    /\ cite.pc = "answered"
    /\ cite' = [cite EXCEPT !.pc = "built",
                            !.refs = FilterReferences(cite.do_only_cited, cite.raw_refs,
                                                      cite.answer_text)]
    /\ UNCHANGED <<pipe, wfp, upd, ens, purge>>

CiteNext == BuildReferences

CiteSpec == CiteInit /\ [][CiteNext]_vars

\* -------------------------------------------------- _update_status on its own

\* the field assignments of _update_status at time t: an argument that is not
\* passed (None) keeps the field, error "" is normalised to None
SetFields(st, state, stage, message, error, questions_processed, t) ==
    [state |-> IF state = Keep THEN st.state ELSE state,
     stage |-> IF stage = Keep THEN st.stage ELSE stage,
     message |-> IF message = Keep THEN st.message ELSE message,
     error |-> IF error = Keep THEN st.error ELSE IF error = "" THEN NoError ELSE error,
     processed |-> IF questions_processed = KeepInt THEN st.processed
                   ELSE questions_processed,
     updated_at |-> t]

\* variant: an event is appended by every call
AlwaysChanged(prev, st) == TRUE

\* the condition of the event append: one of the five fields differs from its
\* value before the call
VisibleChanged(prev, st) ==
    \/ prev.state # st.state
    \/ prev.stage # st.stage
    \/ prev.message # st.message
    \/ prev.error # st.error
    \/ prev.processed # st.processed

\* the event row db_add_task_event appends
EventOf(st) ==
    [state |-> st.state, stage |-> st.stage, message |-> st.message, error |-> st.error,
     processed |-> st.processed]

UpdInit ==
    /\ distributed = FALSE
    /\ Idle
    /\ purge = PurgeIdle
    /\ wfp = WfpIdle
    /\ cite = CiteIdle
    /\ upd = UpdIdle
    /\ ens = EnsIdle

\* variant: an exception of the event append leaves the call
AppendFailedRaises(u) == [u EXCEPT !.outcome = "raised", !.logged = TRUE]

\* `except Exception: logger.exception(...)` around db_add_task_event: the
\* call goes on to its normal return
AppendFailed(u) == [u EXCEPT !.logged = TRUE]

\* the task_created event
CreatedEvent(st) ==
    [state |-> st.state, stage |-> st.stage, message |-> "Task created", error |-> NoError,
     processed |-> 0]

\* create_task(questions, state): db_save_task inserts the row or raises (the
\* exception leaves the call), then the task_created event is appended; an
\* exception of the append is logged and swallowed
CreateTaskCall ==
    /\ ~upd.created
    /\ upd.outcome = "none"
    /\ \E state \in {PENDING, AWAITING_DOCUMENTS} :
         LET st == [FreshStatus EXCEPT !.state = state]
             saved == [upd EXCEPT !.created = TRUE, !.status = st, !.row = st,
                                  !.outcome = "returned"]
         IN \/ upd' = [upd EXCEPT !.outcome = "raised"]
            \/ upd' = [saved EXCEPT !.events = Append(@, CreatedEvent(st))]
            \/ upd' = AppendFailed(saved)
    /\ UNCHANGED <<pipe, wfp, cite, ens, purge>>

\* one call _update_status(record, state=, stage=, message=, error=,
\* questions_processed=): the fields are set, db_save_task replaces the row or
\* raises (the exception leaves the call), then the event is appended when a
\* field changed; an exception of the append is logged and swallowed
UpdateStatusCall ==
    \E t \in Times, state \in {Keep, PROCESSING}, stage \in {Keep, FINALIZING},
       message \in Messages \cup {Keep}, error \in {Keep, "", "boom"},
       questions_processed \in {KeepInt, 1} :
        /\ upd.created
        /\ t > upd.now
        /\ LET st == SetFields(upd.status, state, stage, message, error,
                               questions_processed, t)
               saved == [upd EXCEPT !.status = st, !.row = st, !.now = t,
                                    !.outcome = "returned", !.logged = FALSE]
           IN \/ upd' = [upd EXCEPT !.status = st, !.now = t, !.outcome = "raised",
                                    !.logged = FALSE]
              \/ /\ ~VisibleChanged(upd.status, st)
                 /\ upd' = saved
              \/ /\ VisibleChanged(upd.status, st)
                 /\ \/ upd' = [saved EXCEPT !.events = Append(@, EventOf(st))]
                    \/ upd' = AppendFailed(saved)
        /\ UNCHANGED <<pipe, wfp, cite, ens, purge>>

UpdNext == CreateTaskCall \/ UpdateStatusCall

UpdSpec == UpdInit /\ [][UpdNext]_vars

\* ---------------------------------------- ensure_dataset / ensure_chat alone

\* list_datasets(name=name) / list_chats(name=name) return page 1 of the
\* gateway's answer to the name filter: at most PAGE_SIZE of its entries
FirstPage(S) ==
    IF Cardinality(S) <= PAGE_SIZE THEN S
    ELSE CHOOSE T \in SUBSET S : Cardinality(T) = PAGE_SIZE

\* variant: everything the list call returned is deleted
ToDeleteAll(existing, gateway) == existing

\* to_delete = [ds for ds in existing if ds.get("name") == name]
ToDelete(existing, gateway) == {i \in existing : gateway[i] = "named"}

\* a call ensure_dataset(name) or ensure_chat(name, ...) starts; the gateway
\* holds resources of that name and resources of other names
EnsInit ==
    /\ distributed = FALSE
    /\ Idle
    /\ purge = PurgeIdle
    /\ wfp = WfpIdle
    /\ cite = CiteIdle
    /\ upd = UpdIdle
    /\ ens \in {[EnsIdle EXCEPT !.pc = "list", !.resource = r, !.before = g, !.gateway = g] :
                    r \in {"dataset", "chat"}, g \in [OldIds -> ResourceNames]}

\* existing = await list(name=name): the gateway answers with the resources of
\* that name and possibly others its filter lets through; to_delete is built
EnsList ==
    /\ ens.pc = "list"
    /\ \/ ens' = [ens EXCEPT !.pc = "raised"]
       \/ \E extra \in SUBSET {i \in OldIds : ens.gateway[i] = "other"} :
            LET existing == FirstPage({i \in OldIds : ens.gateway[i] = "named"} \cup extra)
                to_delete == ToDelete(existing, ens.gateway)
            IN ens' = [ens EXCEPT !.to_delete = to_delete,
                                  !.pc = IF to_delete = {} THEN "create" ELSE "deleting"]
    /\ UNCHANGED <<pipe, wfp, cite, upd, purge>>

\* one delete call of the gather completes, or raises and the gather with it;
\* the gather returns when every delete has completed
EnsDelete ==
    /\ ens.pc = "deleting"
    /\ \/ ens' = [ens EXCEPT !.pc = "raised"]
       \/ \E i \in ens.to_delete \ ens.deleted :
            ens' = [ens EXCEPT !.gateway[i] = "none", !.deleted = @ \cup {i},
                               !.pc = IF ens.deleted \cup {i} = ens.to_delete
                                      THEN "create" ELSE "deleting"]
    /\ UNCHANGED <<pipe, wfp, cite, upd, purge>>

\* return await create(name, ...): the ID of the new resource
EnsCreate ==
    /\ ens.pc = "create"
    /\ \/ ens' = [ens EXCEPT !.pc = "raised"]
       \/ ens' = [ens EXCEPT !.pc = "returned", !.created = @ + 1, !.result = NewId]
    /\ UNCHANGED <<pipe, wfp, cite, upd, purge>>

EnsNext == EnsList \/ EnsDelete \/ EnsCreate

EnsSpec == EnsInit /\ [][EnsNext]_vars

\* -------------------------------------------------- retention purge on its own

\* two instances of the service call db_purge_old_tasks against one store that
\* holds old task rows and old event rows
PurgeInit ==
    /\ distributed \in BOOLEAN
    /\ Idle
    /\ wfp = WfpIdle
    /\ cite = CiteIdle
    /\ upd = UpdIdle
    /\ ens = EnsIdle
    /\ purge \in {[PurgeIdle EXCEPT !.pc = [i \in Workers |-> "called"],
                                     !.retention_days = rd, !.tasks = t, !.events = e] :
                      rd \in [Workers -> {0, 1}], t \in 0..2, e \in 0..2}

\* the purge call of instance i ends with value n; its transaction is over
PurgeReturn(i, n, tasks, events) ==
    purge' = [purge EXCEPT !.pc[i] = "returned", !.ret[i] = n, !.tasks = tasks,
                           !.events = events, !.undo[i] = <<0, 0>>,
                           !.lock = IF @ = i THEN NoOne ELSE @]

\* `if retention_days <= 0: return 0`, otherwise the session and its
\* transaction begin
PurgeBegin(i) ==
    /\ purge.pc[i] = "called"
    /\ IF purge.retention_days[i] <= 0
       THEN PurgeReturn(i, 0, purge.tasks, purge.events)
       ELSE purge' = [purge EXCEPT !.pc[i] = "try_lock"]
    /\ UNCHANGED <<pipe, wfp, cite, upd, ens>>

\* variant: the result of the try-lock is not examined
AcquiredAlways(i) == TRUE

\* pg_try_advisory_xact_lock: true when no other transaction holds the lock
Acquired(i) == purge.lock = NoOne

\* on PostgreSQL the try-lock: not acquired returns 0; acquired, or another
\* engine, goes on to the deletes
PurgeTryLock(i) ==
    /\ purge.pc[i] = "try_lock"
    /\ IF distributed
       THEN IF Acquired(i)
            THEN purge' = [purge EXCEPT !.pc[i] = "delete_events", !.lock = i]
            ELSE PurgeReturn(i, 0, purge.tasks, purge.events)
       ELSE purge' = [purge EXCEPT !.pc[i] = "delete_events"]
    /\ UNCHANGED <<pipe, wfp, cite, upd, ens>>

\* the transaction of instance i fails: its deletes are rolled back, its lock
\* is released and the exception leaves the call
PurgeRaise(i) ==
    purge' = [purge EXCEPT !.pc[i] = "raised", !.tasks = @ + purge.undo[i][1],
                           !.events = @ + purge.undo[i][2], !.undo[i] = <<0, 0>>,
                           !.lock = IF @ = i THEN NoOne ELSE @]

\* delete(TaskEventRow) older than the cutoff
PurgeEvents(i) ==
    /\ purge.pc[i] = "delete_events"
    /\ \/ PurgeRaise(i)
       \/ purge' = [purge EXCEPT !.pc[i] = "delete_tasks", !.events = 0,
                                 !.undo[i] = <<0, purge.events>>]
    /\ UNCHANGED <<pipe, wfp, cite, upd, ens>>

\* delete(TaskRow) older than the cutoff, deleted = rowcount, commit (the
\* transaction-level lock ends with it), return deleted
PurgeTasks(i) ==
    /\ purge.pc[i] = "delete_tasks"
    /\ \/ PurgeRaise(i)
       \/ PurgeReturn(i, purge.tasks, 0, purge.events)
    /\ UNCHANGED <<pipe, wfp, cite, upd, ens>>

PurgeNext ==
    \E i \in Workers : PurgeBegin(i) \/ PurgeTryLock(i) \/ PurgeEvents(i) \/ PurgeTasks(i)

PurgeSpec == PurgeInit /\ [][PurgeNext]_vars

\* ------------------------------------------------------------------ claims

\* C1 as stated: whenever a pipeline execution ends inside its try block
\* otherwise than by completing, the exception has not propagated and the
\* persisted task is FAILED, stage IDLE, error = the exception's message.
C1_AnyRaiseIsPersisted ==
    [][\A w \in Workers :
         (pc[w] \in TryPCs /\ pc'[w] = "done" /\ ret'[w] # "completed")
         => /\ ret'[w] = "failed"
            /\ store'.state = FAILED
            /\ store'.stage = IDLE
            /\ store'.error = exc'[w]]_vars

\* C1 amended: a step raising inside the try block of any variant is caught by
\* the handler; when the handler's status write succeeds the task is persisted
\* FAILED, stage IDLE, error = the (non-empty) message of the exception and
\* nothing propagates; when that write raises, its exception leaves the
\* coroutine and the persisted task is left as it was.
C1_HandlerPersistsFailure ==
    [][\A w \in Workers :
         (pc[w] \in TryPCs /\ pc'[w] = "done" /\ ret'[w] # "completed")
         => \/ /\ ret'[w] = "failed"
               /\ store'.state = FAILED
               /\ store'.stage = IDLE
               /\ store'.error = exc'[w]
               /\ exc'[w] \notin {NoExc, NoError, ""}
            \/ /\ ret'[w] = "crashed"
               /\ store' = store]_vars

\* C1 witness: an execution whose documents all failed to parse has ended, the
\* task is persisted FAILED / IDLE with that message
C1_Witness ==
    \E w \in Workers :
        /\ pc[w] = "done" /\ ret[w] = "failed"
        /\ exc[w] = "all documents failed to parse"
        /\ store.state = FAILED /\ store.stage = IDLE /\ store.error = exc[w]

\* C2 as stated: every started pipeline execution eventually ends with the task
\* COMPLETED or FAILED (every gateway and store call returns or raises).
C2_EndsTerminal ==
    \A w \in Workers :
        (pc[w] \in ExecPCs)
        ~> (pc[w] = "done" /\ store.exists /\ store.state \in {COMPLETED, FAILED})

\* C2 amended: every started pipeline execution eventually ends; it ends with
\* the task persisted COMPLETED or FAILED unless the exception leaves the
\* coroutine (the handler's own status write raised, or the validation before
\* the try block raised).
C2_EventuallyEnds ==
    \A w \in Workers :
        (pc[w] \in ExecPCs)
        ~> /\ pc[w] = "done"
           /\ \/ ret[w] = "completed" /\ store.state = COMPLETED
              \/ ret[w] = "failed" /\ store.state = FAILED
              \/ ret[w] \in {"crashed", "raised"}

\* C2 witness: an execution has ended with the task COMPLETED and a result
C2_Witness ==
    \E w \in Workers :
        /\ pc[w] = "done" /\ ret[w] = "completed"
        /\ store.state = COMPLETED /\ store.stage = FINALIZING
        /\ Len(store.results) = total

\* C3 as stated: at most one pipeline execution for the task runs at any time,
\* with the real lock and with the no-op lock.
C3_AtMostOneExecution ==
    Cardinality({w \in Workers : pc[w] \in ExecPCs}) <= 1

\* C4 as stated: in distributed mode, of two concurrent claim_session_start
\* calls the one that waited while the other claimed observes PARSING and raises.
C4_LoserObservesParsing ==
    [][\A w \in Workers :
         (distributed /\ pc[w] = "cl_wait" /\ sawClaim[w] /\ pc'[w] # "cl_wait")
         => /\ store.state = PARSING
            /\ pc'[w] = "done" /\ ret'[w] = "raised"]_vars

\* C4 amended: in distributed mode the calls are serialised: a claim is written
\* only over a persisted AWAITING_DOCUMENTS / FAILED task with a document and
\* persists PARSING, no two calls hold a validated claim at once, and a call
\* that waited while another claimed raises the invalid-state error and changes
\* nothing if the task is still PARSING, PROCESSING or COMPLETED when it gets
\* the lock (it succeeds if the first execution has already failed).
C4_ClaimsSerialised ==
    [][distributed =>
         \A w \in Workers :
            /\ (pc[w] = "cl_save" /\ pc'[w] = "cl_sched")
               => /\ store.state \in {AWAITING_DOCUMENTS, FAILED}
                  /\ store.docs # <<>>
                  /\ store'.state = PARSING
                  /\ \A v \in Workers \ {w} : pc[v] # "cl_save"
            /\ (pc[w] = "cl_wait" /\ sawClaim[w] /\ pc'[w] # "cl_wait"
                  /\ store.state \in {PARSING, PROCESSING, COMPLETED})
               => /\ pc'[w] = "done" /\ ret'[w] = "raised"
                  /\ exc'[w] = "cannot start in this state"
                  /\ store' = store]_vars

\* C4 witness: distributed mode, one call has claimed (PARSING persisted, not
\* yet dispatched) and the other call has raised the invalid-state error
C4_Witness ==
    /\ distributed
    /\ store.state = PARSING
    /\ \E w, v \in Workers :
         /\ pc[v] = "cl_sched"
         /\ pc[w] = "done" /\ ret[w] = "raised"
         /\ exc[w] = "cannot start in this state"

\* C5 as stated: whenever the start request has claimed the task (PARSING
\* persisted), a background execution is scheduled.
C5_ClaimIsScheduled ==
    [][\A w \in Workers :
         (pc[w] = "cl_sched" /\ pc'[w] # "cl_sched")
         => pc'[w] = "rs_get" /\ runs' = runs + 1]_vars

\* C6: claim_session_start and run_assessment_for_session raise and leave the
\* persisted task unchanged when the task is missing, is COMPLETED, PROCESSING,
\* UPLOADING or PENDING, or has no document; a claim goes through only from
\* AWAITING_DOCUMENTS or FAILED with a non-empty document list.
C6_ClaimPreconditions ==
    [][\A w \in Workers :
         /\ (pc[w] \in {"cl_wait", "rs_get"} /\ pc'[w] # pc[w]
               /\ (\/ ~store.exists
                   \/ store.state \in {COMPLETED, PROCESSING, UPLOADING, PENDING}
                   \/ store.docs = <<>>))
            => /\ pc'[w] = "done" /\ ret'[w] = "raised"
               /\ exc'[w] \in {"task not found", "cannot start in this state",
                               "no evidence documents uploaded"}
               /\ store' = store
         /\ (pc[w] = "cl_wait" /\ pc'[w] = "cl_save")
            => /\ store.state \in {AWAITING_DOCUMENTS, FAILED}
               /\ store.docs # <<>>
         /\ (pc[w] = "cl_save" /\ pc'[w] = "cl_sched")
            => /\ rec[w].state \in {AWAITING_DOCUMENTS, FAILED}
               /\ rec[w].docs # <<>>]_vars

\* C6 witness: a claim on a task that awaits documents and has none has raised,
\* the task is unchanged
C6_Witness ==
    \E w \in Workers :
        /\ pc[w] = "done" /\ ret[w] = "raised"
        /\ exc[w] = "no evidence documents uploaded"
        /\ store.state = AWAITING_DOCUMENTS /\ store.docs = <<>>

\* C7: after a successful claim / start the persisted results and document
\* statuses are empty, questions_processed is 0 and error is null; the results
\* a completed execution persists are those of that execution only.
C7_ClaimResetsRun ==
    [][\A w \in Workers :
         /\ ((pc[w] = "cl_save" /\ pc'[w] = "cl_sched")
               \/ (pc[w] = "rs_parsing" /\ pc'[w] = "parse"))
            => /\ store'.state = PARSING
               /\ store'.results = <<>>
               /\ store'.docstat = <<>>
               /\ store'.processed = 0
               /\ store'.error = NoError
         /\ (pc[w] = "asking" /\ pc'[w] = "done" /\ ret'[w] = "completed")
            => \A i \in 1..Len(store'.results) : store'.results[i][2] = runId[w]]_vars

\* C7 witness: the second execution has completed and the persisted results
\* are its own
C7_Witness ==
    /\ store.state = COMPLETED
    /\ store.results # <<>>
    /\ \A i \in 1..Len(store.results) : store.results[i][2] = 2
    /\ \E w \in Workers : pc[w] = "done" /\ ret[w] = "completed"

\* C8 as stated: whenever add_documents_to_session returns successfully for a
\* task that was FAILED, the persisted state afterwards is AWAITING_DOCUMENTS
\* and error is null.
C8_FailedIsReset ==
    [][\A w \in Workers :
         (/\ \/ pc[w] = "idle" /\ store.exists /\ store.state = FAILED
             \/ pc[w] = "ad_save" /\ rec[w].state = FAILED
          /\ pc'[w] = "done" /\ ret'[w] = "ok")
         => /\ store'.state = AWAITING_DOCUMENTS
            /\ store'.error = NoError]_vars

\* C9: add_documents_to_session on a task that is missing, not in
\* AWAITING_DOCUMENTS / FAILED, or without a dataset raises, uploads nothing and
\* leaves the persisted task (state, document_ids, file_hashes) unchanged.
C9_AddRefused ==
    [][\A w \in Workers :
         (/\ pc[w] = "idle"
          /\ \/ pc'[w] = "ad_save"
             \/ pc'[w] = "done" /\ ret'[w] \in {"ok", "raised"}
          /\ \/ ~store.exists
             \/ store.state \notin {AWAITING_DOCUMENTS, FAILED}
             \/ ~store.dataset)
         => /\ pc'[w] = "done" /\ ret'[w] = "raised"
            /\ exc'[w] \in {"task not found", "cannot upload in this state", "no dataset"}
            /\ gwDocs' = gwDocs
            /\ store' = store]_vars

\* C9 witness: an upload to a session whose dataset was never created has
\* raised; nothing was uploaded
C9_Witness ==
    \E w \in Workers :
        /\ pc[w] = "done" /\ ret[w] = "raised" /\ exc[w] = "no dataset"
        /\ store.state = FAILED /\ ~store.dataset
        /\ store.docs = <<>> /\ gwDocs = <<>>

\* C10: add_documents_to_session on a task loaded in AWAITING_DOCUMENTS persists
\* AWAITING_DOCUMENTS and document_ids = the loaded IDs followed by the IDs of
\* the newly uploaded unique files (one per file the dedup loop kept); with
\* the effective lock the loaded IDs are the persisted ones; a batch of
\* duplicates only changes nothing.
C10_AddExtends ==
    [][\A w \in Workers :
         /\ (pc[w] = "ad_save" /\ rec[w].state = AWAITING_DOCUMENTS
               /\ pc'[w] = "done" /\ ret'[w] = "ok")
            => /\ store'.state = AWAITING_DOCUMENTS
               /\ store'.docs = rec[w].docs \o DocIdsOf(newIds[w])
               /\ Len(store'.docs) = Len(rec[w].docs)
                     + Len(Dedup(files[w], HashKeys(rec[w]), <<>>, 0)[1])
               /\ \A i \in 1..Len(newIds[w]) : gwDocs[newIds[w][i][1]] = newIds[w][i][2]
               /\ distributed => rec[w].docs = store.docs
         /\ (pc[w] = "idle" /\ store.exists /\ store.state = AWAITING_DOCUMENTS
               /\ pc'[w] = "done" /\ ret'[w] = "ok")
            => store' = store]_vars

\* C10 witness: a second upload to a session awaiting documents has returned,
\* the first document is kept and the new one follows it
C10_Witness ==
    /\ store.state = AWAITING_DOCUMENTS
    /\ store.docs = <<1, 2>>
    /\ store.hashes = <<<<"h2", 1>>, <<"h1", 2>>>>
    /\ \E w \in Workers : pc[w] = "done" /\ ret[w] = "ok"

\* C11 as stated: over any sequence of add_documents_to_session calls each
\* distinct file content is uploaded to the gateway exactly once.
C11_UploadedOnce ==
    \A i, j \in 1..Len(gwDocs) : gwDocs[i] = gwDocs[j] => i = j

\* C11 amended: a call uploads exactly the contents of its batch that are not
\* in the file_hashes it loaded, once each, and skips every other file
\* (uploaded + skipped = submitted); a successful call records one hash -> ID
\* entry per upload, and the persisted mapping always has one entry per hash,
\* naming a document of that content.  (A content whose upload was not
\* recorded, because the call failed afterwards or lost a race without the
\* lock, is uploaded again.)
C11_DedupPerCall ==
    [][/\ (\A w \in Workers :
            (pc[w] = "idle" /\ pc'[w] = "ad_save")
            => LET fs == files'[w]
                   known == {store.hashes[i][1] : i \in 1..Len(store.hashes)}
                   up == newIds'[w]
                   skippedCount ==
                       Cardinality({i \in 1..Len(fs) :
                                      \/ fs[i] \in known
                                      \/ \E j \in 1..(i - 1) : fs[j] = fs[i]})
               IN /\ {up[i][2] : i \in 1..Len(up)} = Range(fs) \ known
                  /\ \A i, j \in 1..Len(up) : up[i][2] = up[j][2] => i = j
                  /\ Len(up) + skippedCount = Len(fs)
                  /\ gwDocs' = gwDocs \o [i \in 1..Len(up) |-> up[i][2]])
        /\ (\A v \in Workers :
            (pc[v] = "ad_save" /\ pc'[v] = "done" /\ ret'[v] = "ok")
            => \A i \in 1..Len(newIds[v]) :
                  \E k \in 1..Len(store'.hashes) :
                     store'.hashes[k] = <<newIds[v][i][2], newIds[v][i][1]>>)
        /\ \A k, l \in 1..Len(store'.hashes) :
              /\ store'.hashes[k][1] = store'.hashes[l][1] => k = l
              /\ gwDocs'[store'.hashes[k][2]] = store'.hashes[k][1]]_vars

\* C11 witness: a batch with an already recorded content and a new one has
\* been uploaded: the recorded one was skipped, the new one uploaded once
C11_Witness ==
    \E w \in Workers :
        /\ pc[w] = "ad_save"
        /\ files[w] = <<"h1", "h2">>
        /\ rec[w].hashes = <<<<"h1", 1>>>>
        /\ newIds[w] = <<<<2, "h2">>>>
        /\ gwDocs = <<"h1", "h2">>

\* C12: a single-call run whose evidence files (two or more) all have the same
\* content fails fatally: it never reaches parsing or any later stage.
C12_AllDuplicatesFail ==
    \A w \in Workers :
        (/\ kind[w] = "single"
         /\ Len(files[w]) >= 2
         /\ Cardinality(Range(files[w])) = 1)
        => pc[w] \notin {"parse", "set_processing", "chat", "asking"}

C14_ProcessingNeedsSuccess ==
    [][(store.state # PROCESSING /\ store'.state = PROCESSING)
       => \E i \in 1..Len(store'.docstat) : store'.docstat[i] = "success"]_vars

\* C14 amended: the persisted state becomes PROCESSING either with a document
\* status success recorded by the parse wait (single-call and two-phase
\* variants), or by a from-dataset execution, which parses nothing and has no
\* document status at all.
C14_ProcessingNeedsSuccessOrDataset ==
    [][(store.state # PROCESSING /\ store'.state = PROCESSING)
       => \/ \E i \in 1..Len(store'.docstat) : store'.docstat[i] = "success"
          \/ /\ store'.docstat = <<>>
             /\ \E w \in Workers : kind[w] = "dataset" /\ pc[w] # "fd_get"]_vars

\* C14 witness: a two-phase execution has set PROCESSING after a parse wait that
\* reported one success among two documents
C14_Witness ==
    \E w \in Workers :
        /\ kind[w] = "session"
        /\ pc[w] = "chat"
        /\ store.state = PROCESSING
        /\ store.docstat = <<"failed", "success">>

\* C15: in every reachable state the persisted task, and the record of every
\* running execution, has questions_processed <= total_questions and
\* len(results) <= total_questions.
C15_ProgressBounded ==
    /\ store.processed <= total
    /\ Len(store.results) <= total
    /\ \A w \in Workers :
          /\ rec[w].processed <= total
          /\ Len(rec[w].results) <= total

\* C15 witness: every question has been answered and the last progress write
\* has been persisted, so both counters are at the bound
C15_Witness ==
    /\ store.state = PROCESSING
    /\ store.processed = total
    /\ Len(store.results) = total
    /\ \E w \in Workers : pc[w] = "asking" /\ qstate[w][total] = "done"

\* C16 as stated: whenever the persisted state is COMPLETED, len(results) equals
\* total_questions.
C16_CompletedHasAllResults ==
    store.state = COMPLETED => Len(store.results) = total

\* C16 amended: the write that sets COMPLETED persists one result for every
\* question whose processing did not raise before its append, and none for the
\* others: len(results) = total_questions - (questions whose ask raised), which
\* is total_questions only when no ask raised.
C16_CompletedHasAnsweredResults ==
    [][\A w \in Workers :
          (pc[w] = "asking" /\ pc'[w] = "done" /\ ret'[w] = "completed")
          => LET raised == {q \in 1..total : qstate[w][q] = "failed"}
             IN /\ store'.state = COMPLETED
                /\ Len(store'.results) = total - Cardinality(raised)
                /\ {store'.results[i][1] : i \in 1..Len(store'.results)}
                      = (1..total) \ raised
                /\ Len(store'.results) >= total - store'.failures]_vars

\* C16 witness: a run of more than one question is COMPLETED with one result
\* missing, its ask having raised
C16_Witness ==
    /\ total > 1
    /\ store.state = COMPLETED
    /\ store.failures = 1
    /\ Len(store.results) = total - 1

\* C17: whenever the persisted state is COMPLETED, len(results) equals
\* questions_processed.
C17_CompletedCountsResults ==
    store.state = COMPLETED => Len(store.results) = store.processed

\* C18: within one run the persisted questions_processed never decreases,
\* whatever the order in which concurrently completing questions and their
\* progress writes take place.
C18_ProgressMonotone ==
    [][store'.processed >= store.processed]_vars

\* C19: the failure of any subset of the questions does not
\* abort the batch: when _process_questions returns, every question has been
\* asked, every question that was answered is in results, the returned count is
\* the number of questions that raised, and the run then writes COMPLETED with
\* that count in its message (unless this last write itself raises).
C19_FailuresDoNotAbort ==
    [][\A w \in Workers :
          (pc[w] = "asking" /\ pc'[w] = "done")
          => LET raised == {q \in 1..total : qstate[w][q] \in {"failed", "unsaved"}}
                 answered == {q \in 1..total : qstate[w][q] \in {"done", "unsaved"}}
             IN /\ \A q \in 1..total : qstate[w][q] \notin {"todo", "asking", "saving"}
                /\ answered = {rec[w].results[i][1] : i \in 1..Len(rec[w].results)}
                /\ \/ /\ ret'[w] = "completed"
                      /\ store'.state = COMPLETED
                      /\ store'.failures = Cardinality(raised)
                      /\ store'.results = rec[w].results
                   \/ exc'[w] = "store write failed"]_vars

\* C19 witness: two of the questions raised (one in its ask, one in its progress
\* write), the others were answered, and the run is COMPLETED reporting 2
C19_Witness ==
    /\ store.state = COMPLETED
    /\ store.failures = 2
    /\ Len(store.results) = total - 1
    /\ \E w \in Workers : pc[w] = "done" /\ ret[w] = "completed"

\* C20: the in-flight ask calls, summed over all executions running at the
\* same time, never exceed max_concurrent_questions.
C20_ProcessWideThrottle ==
    Cardinality({wq \in Workers \X Questions : qstate[wq[1]][wq[2]] = "asking"})
        <= MAX_CONCURRENT_QUESTIONS

\* C21: wait_for_parsing raises only when a list call fails, never for what a
\* document's entry says; when it returns, the report has one entry per
\* requested ID, in the order of the request, each with status success,
\* failed, timeout or not_found.
C21_FullReport ==
    /\ wfp.pc = "raised" => wfp.exc = GatewayError
    /\ wfp.pc = "returned"
       => /\ Len(wfp.report) = Len(wfp.document_ids)
          /\ \A i \in 1..Len(wfp.report) :
                /\ wfp.report[i].document_id = wfp.document_ids[i]
                /\ wfp.report[i].status \in ParseStatuses

\* C21 witness: d2 and d1 were requested in this order; the report has d2
\* failed first and d1 success second
C21_Witness ==
    /\ wfp.pc = "returned"
    /\ wfp.document_ids = <<"d2", "d1">>
    /\ wfp.report = <<[document_id |-> "d2", status |-> "failed"],
                      [document_id |-> "d1", status |-> "success"]>>

C23_OnlyCitedKept ==
    cite.pc = "built"
    => LET cited == {n \in 0..3 : \E j \in 1..Len(cite.answer_text) : cite.answer_text[j] = n}
           kept == {p \in 1..Len(cite.raw_refs) : (p - 1) \in cited}
           nth(j) == CHOOSE p \in kept : Cardinality({x \in kept : x < p}) = j - 1
       IN /\ (cite.do_only_cited /\ cited # {})
             => /\ Len(cite.refs) = Cardinality(kept)
                /\ \A j \in 1..Len(cite.refs) : cite.refs[j] = cite.raw_refs[nth(j)]
          /\ ~cite.do_only_cited => cite.refs = cite.raw_refs

\* C23 witness: three references, the answer cites [ID:0] and [ID:2], the
\* result has the first and the third
C23_Witness ==
    /\ cite.pc = "built"
    /\ cite.do_only_cited
    /\ cite.raw_refs = <<"a.pdf", "a.pdf", "b.pdf">>
    /\ cite.answer_text = <<0, 2>>
    /\ cite.refs = <<"a.pdf", "b.pdf">>

C25_EventIffChanged ==
    [][upd'.now # upd.now
       => LET differs == \/ upd'.status.state # upd.status.state
                         \/ upd'.status.stage # upd.status.stage
                         \/ upd'.status.message # upd.status.message
                         \/ upd'.status.error # upd.status.error
                         \/ upd'.status.processed # upd.status.processed
          IN /\ upd'.status.updated_at = upd'.now
             /\ upd'.row = upd'.status
             /\ differs => Len(upd'.events) = Len(upd.events) + 1
             /\ ~differs => upd'.events = upd.events]_vars

\* C25 amended: every call stamps updated_at and writes the full task; when
\* the write raises, the call raises, the row is unchanged and no event is
\* appended; when it returns, the row is the stamped task, no event is
\* appended if none of the five fields changed, and if one changed exactly one
\* event with the new values is appended, unless the append raises, which is
\* logged and otherwise ignored.
C25_EventIffChangedAndSaved ==
    [][upd'.now # upd.now
       => LET differs == \/ upd'.status.state # upd.status.state
                         \/ upd'.status.stage # upd.status.stage
                         \/ upd'.status.message # upd.status.message
                         \/ upd'.status.error # upd.status.error
                         \/ upd'.status.processed # upd.status.processed
              event == [state |-> upd'.status.state, stage |-> upd'.status.stage,
                        message |-> upd'.status.message, error |-> upd'.status.error,
                        processed |-> upd'.status.processed]
          IN /\ upd'.status.updated_at = upd'.now
             /\ upd'.outcome = "raised"
                => upd'.row = upd.row /\ upd'.events = upd.events
             /\ upd'.outcome = "returned"
                => /\ upd'.row = upd'.status
                   /\ ~differs => upd'.events = upd.events /\ ~upd'.logged
                   /\ (differs /\ ~upd'.logged) => upd'.events = Append(upd.events, event)
                   /\ (differs /\ upd'.logged) => upd'.events = upd.events]_vars

\* C25 witness: a first call changed the state and appended its event; a
\* second call changed nothing but the time stamp and appended none
C25_Witness ==
    /\ upd.outcome = "returned"
    /\ upd.now = 2
    /\ upd.row.updated_at = 2
    /\ upd.row.state = PROCESSING
    /\ Len(upd.events) = 2
    /\ upd.events[1].message = "Task created"
    /\ ~upd.logged

\* C26: ensure_dataset / ensure_chat never deletes a resource of another
\* name; the create call is issued only when every resource that had the
\* requested name has been deleted; the call returns the ID of the resource
\* it created, and then no older resource of that name is left.
C26_EnsureReplaces ==
    [][/\ \A i \in OldIds :
            /\ ens'.before[i] = "other" => ens'.gateway[i] = "other"
            /\ ens'.gateway[i] # ens'.before[i]
               => ens'.before[i] = "named" /\ ens'.gateway[i] = "none"
       /\ ens'.created # ens.created
          => /\ \A i \in OldIds : ens.gateway[i] # "named"
             /\ ens.deleted = {i \in OldIds : ens.before[i] = "named"}
             /\ ens'.created = 1
       /\ ens'.pc = "returned"
          => /\ ens'.result = NewId
             /\ ens'.created = 1
             /\ \A i \in OldIds : ens'.gateway[i] # "named"]_vars

\* C26 witness: two chats of the requested name and one of another name
\* existed; the two were deleted, the third is still there, and the call
\* returned the new ID
C26_Witness ==
    /\ ens.pc = "returned"
    /\ ens.resource = "chat"
    /\ ens.before = <<"named", "other", "named">>
    /\ ens.gateway = <<"none", "other", "none">>
    /\ ens.result = NewId

\* C27: against a shared (PostgreSQL) store at most one instance is between
\* its try-lock and the end of its transaction, and an instance whose try-lock
\* finds the lock held returns 0 in that same step, having deleted nothing,
\* without waiting and without raising.
C27_PurgeSkipsIfBusy ==
    [][distributed
       => /\ Cardinality({i \in Workers :
                            purge'.pc[i] \in {"delete_events", "delete_tasks"}}) <= 1
          /\ \A i \in Workers :
                (/\ purge.pc[i] = "try_lock"
                 /\ purge'.pc[i] # "try_lock"
                 /\ purge.lock # NoOne)
                => /\ purge'.pc[i] = "returned"
                   /\ purge'.ret[i] = 0
                   /\ purge'.tasks = purge.tasks
                   /\ purge'.events = purge.events
                   /\ purge'.lock = purge.lock]_vars

\* C27 witness: one instance skipped with 0 while the other, holding the
\* lock, is still deleting
C27_Witness ==
    /\ distributed
    /\ \E i, j \in Workers :
          /\ purge.pc[i] = "returned"
          /\ purge.ret[i] = 0
          /\ purge.retention_days[i] > 0
          /\ purge.pc[j] = "delete_tasks"
          /\ purge.lock = j

\* C28: an execution of the from-existing-dataset variant only moves along
\* get_task, the PROCESSING status write, chat creation and the questions: it
\* is never at a position of ensure_dataset, upload_document, start_parsing or
\* wait_for_parsing and uploads nothing; the gateway is untouched before chat
\* creation, which is given the whole supplied dataset ID list; and the status
\* write that follows PENDING writes PROCESSING (UPLOADING and PARSING are
\* never written by it)
C28_FromDatasetSkipsIngestion ==
    [][\A w \in Workers :
         (kind[w] = "dataset" /\ pc'[w] # pc[w])
            => /\ <<pc[w], pc'[w]>> \in {<<"fd_get", "set_processing">>,
                                         <<"set_processing", "chat">>,
                                         <<"chat", "asking">>,
                                         <<"fd_get", "done">>,
                                         <<"set_processing", "done">>,
                                         <<"chat", "done">>,
                                         <<"asking", "done">>}
               /\ gwDocs' = gwDocs
               /\ pc[w] # "chat" => gwChat' = gwChat
               /\ pc[w] = "chat" => gwChat' \in {gwChat, files[w]}
               /\ pc'[w] = "asking" => gwChat' = files[w]
               /\ store'.state \notin {UPLOADING, PARSING}
               /\ pc'[w] = "chat" => store.state = PENDING /\ store'.state = PROCESSING
    ]_vars

\* an existing-dataset execution over two datasets has created its chat
\* assistant and asks its questions, nothing having been uploaded
C28_Witness ==
    \E w \in Workers :
        /\ kind[w] = "dataset" /\ pc[w] = "asking"
        /\ files[w] = <<"ds1", "ds2">> /\ gwChat = files[w]
        /\ store.state = PROCESSING /\ gwDocs = <<>>

\* C29: the steps of a single-call execution that go on without an exception
\* follow one order: get_task, the UPLOADING write (after PENDING),
\* ensure_dataset, the uploads and the PARSING write (after UPLOADING),
\* start_parsing / wait_for_parsing, the PROCESSING write (after PARSING),
\* ensure_chat / create_session with the task's own dataset, the questions,
\* the COMPLETED write (after PROCESSING); documents are uploaded only by the
\* upload step, a chat assistant is created only by the chat step, no question
\* is asked before that step, and when no ask failed the persisted results hold
\* each question exactly once
C29_SingleCallOrder ==
    [][\A w \in Workers :
         kind[w] = "single"
            => /\ qstate'[w] # qstate[w] => pc[w] = "asking"
               /\ (pc'[w] # pc[w] /\ (pc'[w] # "done" \/ ret'[w] = "completed"))
                    => /\ <<pc[w], pc'[w]>> \in {<<"ra_get", "ra_uploading">>,
                                                 <<"ra_uploading", "ra_dataset">>,
                                                 <<"ra_dataset", "ra_upload">>,
                                                 <<"ra_upload", "parse">>,
                                                 <<"parse", "set_processing">>,
                                                 <<"set_processing", "chat">>,
                                                 <<"chat", "asking">>,
                                                 <<"asking", "done">>}
                       /\ pc[w] # "ra_upload" => gwDocs' = gwDocs
                       /\ pc[w] = "ra_upload" => gwDocs' # gwDocs
                       /\ pc[w] # "chat" => gwChat' = gwChat
                       /\ pc[w] = "chat" => gwChat' = <<OwnDataset>>
                       /\ pc[w] = "ra_get" => store'.state = PENDING
                       /\ pc[w] = "ra_uploading"
                            => store.state = PENDING /\ store'.state = UPLOADING
                       /\ pc[w] = "ra_dataset" => store'.state = UPLOADING
                       /\ pc[w] = "ra_upload"
                            => store.state = UPLOADING /\ store'.state = PARSING
                       /\ pc[w] = "parse" => store'.state = PARSING
                       /\ pc[w] = "set_processing"
                            => store.state = PARSING /\ store'.state = PROCESSING
                       /\ pc[w] = "chat" => store'.state = PROCESSING
                       /\ pc[w] = "asking"
                            => /\ store.state = PROCESSING /\ store'.state = COMPLETED
                               /\ (\A q \in 1..total : qstate[w][q] # "failed")
                                    => /\ Len(store'.results) = total
                                       /\ \A q \in 1..total :
                                            Cardinality({i \in 1..Len(store'.results) :
                                                           store'.results[i][1] = q}) = 1
    ]_vars

\* a single-call execution has uploaded two documents, parsed them, created
\* its chat assistant and got an answer to every question: the final write is
\* what remains
C29_Witness ==
    \E w \in Workers :
        /\ kind[w] = "single" /\ pc[w] = "asking"
        /\ \A q \in 1..total : qstate[w][q] = "done"
        /\ Len(rec[w].results) = total
        /\ store.state = PROCESSING /\ gwChat = <<OwnDataset>>
        /\ gwDocs = <<"h1", "h2">> /\ store.docs = <<1, 2>>

\* C30: in the persisted task every document ID that is a value of file_hashes
\* is an element of document_ids
C30_HashedDocsListed ==
    \A i \in 1..Len(store.hashes) : store.hashes[i][2] \in Range(store.docs)

\* a single-call execution has persisted its two uploads: file_hashes names
\* documents 1 and 2 and document_ids lists both
C30_Witness ==
    /\ store.hashes = <<<<"h1", 1>>, <<"h2", 2>>>>
    /\ store.docs = <<1, 2>>
    /\ store.state = PARSING
    /\ \E w \in Workers : kind[w] = "single" /\ pc[w] = "parse"

C32_GatedOncePerQuestion ==
    /\ [](\A w \in Workers :
            Cardinality({q \in Questions : qstate[w][q] \in {"asking", "saving"}})
               <= MAX_CONCURRENT_QUESTIONS)
    /\ [][\A w \in Workers :
            /\ \A q \in Questions :
                 /\ (qstate'[w][q] = "asking" /\ qstate[w][q] # "asking")
                      => qstate[w][q] = "todo" /\ q <= total
                 /\ (qstate[w][q] # "todo" /\ pc'[w] = "asking")
                      => qstate'[w][q] # "todo"
            /\ (pc[w] = "asking" /\ pc'[w] = "done")
                 => \A q \in 1..total : qstate[w][q] \in {"done", "failed", "unsaved"}]_vars

\* C32 witness: five questions hold the semaphore and the sixth has not started
C32_Witness ==
    \E w \in Workers :
        /\ pc[w] = "asking"
        /\ Cardinality({q \in Questions : qstate[w][q] \in {"asking", "saving"}})
              = MAX_CONCURRENT_QUESTIONS
        /\ \E q \in 1..total : qstate[w][q] = "todo"

\* C33: the persisted task pairs state and stage: PENDING, AWAITING_DOCUMENTS
\* and FAILED with IDLE, UPLOADING with DOCUMENT_UPLOAD, PARSING with
\* DOCUMENT_PARSING, PROCESSING with CHAT_PROCESSING, COMPLETED with FINALIZING
C33_StateStagePaired ==
    store.exists
    => /\ store.state \in {PENDING, AWAITING_DOCUMENTS, FAILED} => store.stage = IDLE
       /\ store.state = UPLOADING => store.stage = DOCUMENT_UPLOAD
       /\ store.state = PARSING => store.stage = DOCUMENT_PARSING
       /\ store.state = PROCESSING => store.stage = CHAT_PROCESSING
       /\ store.state = COMPLETED => store.stage = FINALIZING

\* C33 witness: after a failed execution an upload has reset the task to
\* AWAITING_DOCUMENTS, and its stage is IDLE
C33_Witness ==
    /\ store.state = AWAITING_DOCUMENTS /\ store.stage = IDLE
    /\ runs >= 1 /\ Len(store.docs) = 2
    /\ \E w \in Workers : pc[w] = "done" /\ ret[w] = "ok"

\* C34: the persisted task has an error only while it is FAILED: a write that
\* leaves FAILED (the reset of add-documents, the claim) or persists any other
\* state persists no error
C34_ErrorOnlyWhenFailed ==
    store.exists => (store.error # NoError => store.state = FAILED)

\* C34 witness: the task of a failed execution has been claimed again: it is
\* PARSING, without an error, and the second execution is about to start
C34_Witness ==
    /\ store.state = PARSING /\ store.error = NoError
    /\ \E w, v \in Workers :
         pc[w] = "cl_sched" /\ pc[v] = "done" /\ ret[v] = "failed" /\ exc[v] # NoExc

\* C35 as stated: once the persisted state is COMPLETED, no step changes the
\* persisted state, results or questions_processed
C35_CompletedAbsorbing ==
    [][(store.exists /\ store.state = COMPLETED)
          => /\ store'.state = COMPLETED
             /\ store'.results = store.results
             /\ store'.processed = store.processed]_vars

\* C36: a requested document that a poll has classified success, failed or
\* not_found keeps that status in every later poll, whatever the later
\* responses list, and is reported with it
C36_ClassificationSticky ==
    [][\A d \in Range(wfp.document_ids) :
          wfp.terminal[d] \in {"success", "failed", "not_found"}
             => /\ wfp'.terminal[d] = wfp.terminal[d]
                /\ wfp'.pc = "returned"
                     => \A i \in 1..Len(wfp'.report) :
                           wfp'.report[i].document_id = d
                              => wfp'.report[i].status = wfp.terminal[d]]_vars

\* C36 witness: d1 was missing from the first poll, the second poll lists it
\* as parsed, and the call has returned with d1 not_found
C36_Witness ==
    /\ wfp.pc = "returned"
    /\ wfp.polls = 2
    /\ wfp.terminal["d1"] = "not_found"
    /\ wfp.id_to_doc["d1"].present
    /\ wfp.id_to_doc["d1"].run = "1" /\ wfp.id_to_doc["d1"].progress = 1000
    /\ \E i \in 1..Len(wfp.report) :
          wfp.report[i] = [document_id |-> "d1", status |-> "not_found"]

\* C37: for every run code and progress of a listed document, the poll of
\* wait_for_parsing that examines it resolves it failed exactly when the
\* listing labelled it failed, and success exactly when the listing labelled
\* it success
C37_SameClassification ==
    [][\A d \in Range(wfp.document_ids) :
          (wfp.pc = "polling" /\ wfp'.pc # "raised" /\ wfp.terminal[d] = "none"
             /\ wfp'.id_to_doc[d].present)
          => /\ wfp'.terminal[d] = "failed" <=> wfp'.id_to_doc[d].status = "failed"
             /\ wfp'.terminal[d] = "success" <=> wfp'.id_to_doc[d].status = "success"]_vars

\* C38: a call of add_documents_to_session in which an upload fails raises
\* and leaves the persisted task as it was: state, error, document_ids and
\* file_hashes are not changed, whichever of the other uploads succeeded
C38_FailedUploadRecordsNothing ==
    [][\A w \in Workers :
          (pc[w] = "idle" /\ pc'[w] = "done" /\ exc'[w] = GatewayError)
             => /\ ret'[w] = "raised"
                /\ store'.state = store.state
                /\ store'.error = store.error
                /\ store'.docs = store.docs
                /\ store'.hashes = store.hashes]_vars

\* C38 witness: of a batch of two files one was uploaded and the other
\* upload failed; the call has raised and the task records no document
C38_Witness ==
    /\ store.state = AWAITING_DOCUMENTS
    /\ store.docs = <<>> /\ store.hashes = <<>>
    /\ Len(gwDocs) = 1
    /\ \E w \in Workers : pc[w] = "done" /\ ret[w] = "raised" /\ exc[w] = GatewayError

\* C39: when the append of the audit event raises, create_task and
\* _update_status return normally and the row holds the new field values; the
\* failure is logged and no event is added
C39_EventFailureSwallowed ==
    [][(upd' # upd /\ upd'.logged)
          => /\ upd'.outcome = "returned"
             /\ upd'.created
             /\ upd'.row = upd'.status
             /\ upd'.row.updated_at = upd'.now
             /\ upd'.events = upd.events]_vars

\* C39 witness: the task_created event was appended, then a status write to
\* PROCESSING whose event append raised has returned with the row updated
C39_Witness ==
    /\ upd.outcome = "returned" /\ upd.logged
    /\ upd.row.state = PROCESSING /\ upd.row = upd.status
    /\ Len(upd.events) = 1 /\ upd.events[1].message = "Task created"

====
